---- MODULE Spec2Model ----
(***************************************************************************)
(* Model of one fathom session: the session actor of                       *)
(* fathom-server/src/session/engine.rs, its mailbox, the detached task      *)
(* completers, the RPC callers that feed the mailbox and the orchestrator   *)
(* (agent.rs, agent/openai.rs) as far as it calls back into the session.    *)
(***************************************************************************)
EXTENDS Integers, Sequences, FiniteSets, Bags, TLC

VARIABLES
    task_capacity,   \* RuntimeInner.task_capacity
    init_error,      \* AgentOrchestrator.init_error is Some
    api_key,         \* OpenAiClient.api_key is Some
    task_seq,        \* RuntimeInner.task_seq
    trigger_seq,     \* RuntimeInner.trigger_seq
    workload,        \* how much the environment does in this run (fixed at Init)
    rpc,             \* RPC calls issued so far, and triggers normalized but not yet sent
    mailbox,         \* the mpsc channel command_tx -> command_rx
    state,           \* SessionState
    events,          \* everything sent on events_tx, in order
    completers,      \* bag of task ids whose detached completer is still sleeping
    reply,           \* the last reply the actor sent on a respond_to channel
    llm_failures,    \* retryable LLM request failures so far
    pc,              \* where the actor is: "recv" or inside run_turn ("agent")
    turn,            \* the locals of the turn in progress
    parse,           \* the locals of one parse_stream call (agent/openai.rs)
    disk,            \* the host filesystem: what is at each absolute path
    fs_call,         \* the fs:// tool call in progress (fs.rs, fs/real.rs)
    profiles,        \* RuntimeInner.agent_profiles and user_profiles
    managed,         \* the managed:// tool call of each caller (fs/managed.rs)
    http,            \* the locals of one stream_tool_calls call (agent/openai.rs)
    copies,          \* the profile copies of the session made by create_session
    channel,         \* the broadcast channel events_tx and its subscribers
    validation       \* one ToolRegistry::validate call (agent/tool_registry.rs)

\* the session and what surrounds it
session == <<task_capacity, init_error, api_key, workload, task_seq, trigger_seq, rpc,
             mailbox, state, events, completers, reply, llm_failures, pc, turn>>
\* the parts of the server a session step does not touch
stream == <<parse>>
files == <<disk, fs_call>>
store == <<profiles, managed>>
service == <<http, copies, channel, validation>>
tools == <<stream, files, store, service>>

vars == <<session, tools>>

(***************************************************************************)
(* Bounds of the model.                                                    *)
(***************************************************************************)
MaxCapacity == 2
MaxTasks == 3
MaxTriggers == 3
MaxCancels == 1
MaxSummaries == 1
MaxStreamFailures == 2

(***************************************************************************)
(* The runs explored: many triggers with few tasks, many tasks with        *)
(* cancellation, and failing LLM requests.                                 *)
(***************************************************************************)
Workloads ==
    { [triggers |-> MaxTriggers, tasks |-> 1, cancels |-> 0, summaries |-> 0,
       failures |-> 0],
      [triggers |-> 1, tasks |-> MaxTasks, cancels |-> MaxCancels,
       summaries |-> MaxSummaries, failures |-> 0],
      [triggers |-> 1, tasks |-> 2, cancels |-> 0, summaries |-> 0,
       failures |-> MaxStreamFailures] }

(***************************************************************************)
(* Program constants.                                                      *)
(***************************************************************************)
SESSION_CMD_BUFFER_SIZE == 128
max_retries == 2

ClientKinds == {"user_message", "refresh_profile"}
Terminal == {"succeeded", "failed", "canceled"}

(***************************************************************************)
(* Sequence helpers.                                                       *)
(***************************************************************************)
SeqToSet(s) == {s[i] : i \in 1..Len(s)}
Count(s, x) == Cardinality({i \in 1..Len(s) : s[i] = x})
Repeat(x, n) == [i \in 1..n |-> x]

RECURSIVE SumSeq(_)
SumSeq(s) == IF s = <<>> THEN 0 ELSE Head(s) + SumSeq(Tail(s))

(***************************************************************************)
(* Events (pb::SessionEvent).  TurnStarted also records the ids of the     *)
(* drained triggers (the local turn_triggers), which the wire event does   *)
(* not carry, so that properties can name the turn that processes a        *)
(* trigger.                                                                *)
(***************************************************************************)
TriggerAcceptedEvent(trigger, queue_depth) ==
    [type |-> "TriggerAccepted", trigger |-> trigger, queue_depth |-> queue_depth]
TurnStartedEvent_agent_only(turn_id, turn_triggers) ==
    [type |-> "TurnStarted", turn_id |-> turn_id,
     trigger_count |->
        Len(SelectSeq(turn_triggers, LAMBDA tr : tr.kind # "refresh_profile")),
     trigger_ids |-> [i \in 1..Len(turn_triggers) |-> turn_triggers[i].trigger_id]]
TurnStartedEvent(turn_id, turn_triggers) ==
    [type |-> "TurnStarted", turn_id |-> turn_id,
     trigger_count |-> Len(turn_triggers),
     trigger_ids |-> [i \in 1..Len(turn_triggers) |-> turn_triggers[i].trigger_id]]
TurnEndedEvent(turn_id, n, history_size) ==
    [type |-> "TurnEnded", turn_id |-> turn_id, processed |-> n,
     history_size |-> history_size]
TurnFailureEvent(turn_id, reason_code) ==
    [type |-> "TurnFailure", turn_id |-> turn_id, reason_code |-> reason_code]
AssistantOutputEvent(content) == [type |-> "AssistantOutput", content |-> content]
TaskStateChangedEvent(task) ==
    [type |-> "TaskStateChanged", task_id |-> task.task_id, status |-> task.status]
ProfileRefreshedEvent(trigger) ==
    [type |-> "ProfileRefreshed", trigger_id |-> trigger.trigger_id]
AgentStreamEvent(phase) == [type |-> "AgentStream", phase |-> phase]
\* StreamNote "agent.turn.attempt", detail "semantic_attempt={n}"
AgentTurnAttemptEvent(semantic_attempt) ==
    [type |-> "AgentStream", phase |-> "agent.turn.attempt",
     semantic_attempt |-> semantic_attempt + 1]
\* StreamNote "openai.request.start", detail "attempt={n} effort={e}"
OpenAiRequestStartEvent(attempts, reasoning_effort) ==
    [type |-> "AgentStream", phase |-> "openai.request.start",
     attempt |-> attempts + 1, effort |-> reasoning_effort]

(***************************************************************************)
(* The part of the world a handler of the actor reads and writes.          *)
(***************************************************************************)
Ctx == [state |-> state, events |-> events, completers |-> completers,
        task_seq |-> task_seq, trigger_seq |-> trigger_seq]

Commit(c) ==
    /\ state' = c.state
    /\ events' = c.events
    /\ completers' = c.completers
    /\ task_seq' = c.task_seq
    /\ trigger_seq' = c.trigger_seq

emit_event(c, e) == [c EXCEPT !.events = Append(@, e)]

RECURSIVE emit_all(_, _)
emit_all(c, es) == IF es = <<>> THEN c ELSE emit_all(emit_event(c, Head(es)), Tail(es))

SessionState_new ==
    [trigger_queue |-> <<>>,
     history |-> <<>>,
     tasks |-> <<>>,
     pending_task_ids |-> <<>>,
     running_task_ids |-> {},
     turn_seq |-> 0,
     turn_in_progress |-> FALSE]

NoTurn == [turn_id |-> 0, turn_triggers |-> <<>>, agent_triggers |-> <<>>,
           assistant_outputs |-> <<>>, semantic_attempt |-> 0, attempts |-> 0,
           tool_call_count |-> 0, diagnostics |-> <<>>,
           retry_feedback |-> FALSE, prompt |-> [retry_feedback_block |-> FALSE],
           reasoning_effort |-> "extra_high"]

(***************************************************************************)
(* Runtime id sequences.                                                   *)
(***************************************************************************)
next_task_id_reused(seq) == 1
next_task_id(seq) == seq + 1

next_trigger_id(seq) == seq + 1

next_turn_id_twice(turn_seq) == turn_seq + 2
next_turn_id_wrapping(turn_seq) == (turn_seq + 1) % 2
next_turn_id(turn_seq) == turn_seq + 1

(***************************************************************************)
(* enqueue_trigger: push the trigger at the back, emit TriggerAccepted.    *)
(***************************************************************************)
enqueue_trigger_silent(c, trigger) ==
    [c EXCEPT !.state.trigger_queue = Append(@, trigger)]
enqueue_trigger(c, trigger) ==
    LET pushed == [c EXCEPT !.state.trigger_queue = Append(@, trigger)]
    IN emit_event(pushed,
                  TriggerAcceptedEvent(trigger, Len(pushed.state.trigger_queue)))

(***************************************************************************)
(* queue_task, called back by the orchestrator for every tool invocation.  *)
(***************************************************************************)
should_run_now_off_by_one(running_task_ids, capacity) ==
    Cardinality(running_task_ids) <= capacity
should_run_now(running_task_ids, capacity) ==
    Cardinality(running_task_ids) < capacity

insert_task(tasks, task) ==
    [id \in DOMAIN tasks \cup {task.task_id} |->
        IF id = task.task_id THEN task ELSE tasks[id]]

queue_task(c) ==
    LET task_id == next_task_id(c.task_seq)
        run == should_run_now(c.state.running_task_ids, task_capacity)
        task == [task_id |-> task_id,
                 status |-> IF run THEN "running" ELSE "pending",
                 result_message |-> ""]
        c1 == [c EXCEPT !.task_seq = @ + 1,
                        !.state.tasks = insert_task(@, task)]
        c2 == IF run
              THEN [c1 EXCEPT !.state.running_task_ids = @ \cup {task_id},
                              !.completers = @ (+) SetToBag({task_id})]
              ELSE [c1 EXCEPT !.state.pending_task_ids = Append(@, task_id)]
    IN emit_event(c2, TaskStateChangedEvent(task))

(***************************************************************************)
(* maybe_start_pending_tasks: promote pending tasks while a slot is free.  *)
(***************************************************************************)
pop_back(q) == [item |-> q[Len(q)], rest |-> SubSeq(q, 1, Len(q) - 1)]
pop_front(q) == [item |-> Head(q), rest |-> Tail(q)]

slot_free_beyond_one(running_task_ids, capacity) ==
    Cardinality(running_task_ids) + 1 < capacity
slot_free(running_task_ids, capacity) ==
    Cardinality(running_task_ids) < capacity

RECURSIVE maybe_start_pending_tasks(_)
maybe_start_pending_tasks(c) ==
    IF ~slot_free(c.state.running_task_ids, task_capacity) THEN c
    ELSE IF c.state.pending_task_ids = <<>> THEN c
    ELSE
        LET popped == pop_front(c.state.pending_task_ids)
            task_id == popped.item
            c1 == [c EXCEPT !.state.pending_task_ids = popped.rest]
        IN IF task_id \notin DOMAIN c1.state.tasks
           THEN maybe_start_pending_tasks(c1)
           ELSE IF c1.state.tasks[task_id].status # "pending"
           THEN maybe_start_pending_tasks(c1)
           ELSE
             LET c2 == [c1 EXCEPT !.state.tasks[task_id].status = "running",
                                  !.state.running_task_ids = @ \cup {task_id}]
                 c3 == emit_event(c2, TaskStateChangedEvent(c2.state.tasks[task_id]))
             IN maybe_start_pending_tasks([c3 EXCEPT !.completers = @ (+) SetToBag({task_id})])

(***************************************************************************)
(* cancel_task.  The reply is [error, canceled, task]; the not_found error *)
(* carries no task.                                                        *)
(***************************************************************************)
retain_all(q, task_id) == q
retain_other(q, task_id) == SelectSeq(q, LAMBDA candidate : candidate # task_id)

is_terminal_never(status) == FALSE
is_terminal(status) == status \in {"succeeded", "failed", "canceled"}

cancel_task(c, task_id) ==
    IF task_id \notin DOMAIN c.state.tasks
    THEN [c |-> c, reply |-> [error |-> "not_found", canceled |-> FALSE]]
    ELSE
      LET status == c.state.tasks[task_id].status IN
      IF is_terminal(status)
      THEN [c |-> c, reply |-> [error |-> "", canceled |-> FALSE,
                                task |-> c.state.tasks[task_id]]]
      ELSE
        LET c1 == IF status = "pending"
                  THEN [c EXCEPT !.state.pending_task_ids = retain_other(@, task_id)]
                  ELSE IF status = "running"
                  THEN [c EXCEPT !.state.running_task_ids = @ \ {task_id}]
                  ELSE c
            c2 == [c1 EXCEPT !.state.tasks[task_id].status = "canceled",
                             !.state.tasks[task_id].result_message = "canceled by request"]
            c3 == emit_event(c2, TaskStateChangedEvent(c2.state.tasks[task_id]))
        IN [c |-> maybe_start_pending_tasks(c3),
            reply |-> [error |-> "", canceled |-> TRUE,
                       task |-> c2.state.tasks[task_id]]]

(***************************************************************************)
(* handle_finished_task.                                                   *)
(***************************************************************************)
finish_allowed_any(status) == TRUE
finish_allowed(status) ==
    /\ status # "canceled"
    /\ status \in {"running", "pending"}

handle_finished_task(c, task_id, succeeded, message) ==
    IF task_id \notin DOMAIN c.state.tasks THEN c
    ELSE IF ~finish_allowed(c.state.tasks[task_id].status) THEN c
    ELSE
      LET c1 == [c EXCEPT !.state.running_task_ids = @ \ {task_id},
                          !.state.tasks[task_id].status =
                              IF succeeded THEN "succeeded" ELSE "failed",
                          !.state.tasks[task_id].result_message = message]
          task_snapshot == c1.state.tasks[task_id]
          c2 == emit_event(c1, TaskStateChangedEvent(task_snapshot))
          trigger == [trigger_id |-> next_trigger_id(c2.trigger_seq),
                      kind |-> "task_done",
                      task_id |-> task_snapshot.task_id]
          c3 == enqueue_trigger([c2 EXCEPT !.trigger_seq = @ + 1], trigger)
      IN maybe_start_pending_tasks(c3)

(***************************************************************************)
(* SessionState::to_summary: the counts are computed from task statuses.   *)
(***************************************************************************)
to_summary(st) ==
    [queued_trigger_count |-> Len(st.trigger_queue),
     history_entry_count |-> Len(st.history),
     pending_task_count |->
        Cardinality({id \in DOMAIN st.tasks : st.tasks[id].status = "pending"}),
     running_task_count |->
        Cardinality({id \in DOMAIN st.tasks : st.tasks[id].status = "running"})]

(***************************************************************************)
(* flush_history and the end of a turn (process_turns, after the agent).   *)
(***************************************************************************)
flush_history_outputs_only(st, turn_triggers, assistant_outputs) ==
    [st EXCEPT !.history =
        @ \o [i \in 1..Len(assistant_outputs) |-> <<"assistant", assistant_outputs[i]>>]]
flush_history(st, turn_triggers, assistant_outputs) ==
    [st EXCEPT !.history =
        @ \o [i \in 1..Len(turn_triggers) |-> <<"trigger", turn_triggers[i].trigger_id>>]
          \o [i \in 1..Len(assistant_outputs) |-> <<"assistant", assistant_outputs[i]>>]]

end_turn(c, t) ==
    LET c1 == emit_all(c, [i \in 1..Len(t.assistant_outputs) |->
                              AssistantOutputEvent(t.assistant_outputs[i])])
        c2 == [c1 EXCEPT !.state =
                  flush_history(@, t.turn_triggers, t.assistant_outputs)]
    IN emit_event(c2, TurnEndedEvent(t.turn_id, Len(t.turn_triggers),
                                     Len(c2.state.history)))

(***************************************************************************)
(* AgentTurnOutcome and the tail of run_agent_turn.                        *)
(***************************************************************************)
outcome_success(tool_call_count, diagnostics) ==
    [failed |-> FALSE, failure_code |-> "", tool_call_count |-> tool_call_count,
     diagnostics |-> diagnostics]
outcome_failure(failure_code, diagnostics) ==
    [failed |-> TRUE, failure_code |-> failure_code, tool_call_count |-> 0,
     diagnostics |-> diagnostics]

finish_agent_turn(c, t, outcome) ==
    LET outputs == t.assistant_outputs \o outcome.diagnostics IN
    IF outcome.failed
    THEN [c |-> emit_event(c, TurnFailureEvent(t.turn_id, outcome.failure_code)),
          turn |-> [t EXCEPT !.assistant_outputs = Append(outputs, "turn failed")]]
    ELSE [c |-> c,
          turn |-> [t EXCEPT !.assistant_outputs = Append(outputs, "agent dispatched")]]

(***************************************************************************)
(* The head of a turn: turn id, drain, TurnStarted, inline refreshes.      *)
(***************************************************************************)
drain(trigger_queue) == [turn_triggers |-> trigger_queue, rest |-> <<>>]

is_refresh_never(trigger) == FALSE
is_refresh(trigger) == trigger.kind = "refresh_profile"

begin_turn(c) ==
    LET turn_id == next_turn_id(c.state.turn_seq)
        drained == drain(c.state.trigger_queue)
        turn_triggers == drained.turn_triggers
        c1 == [c EXCEPT !.state.turn_seq = turn_id,
                        !.state.trigger_queue = drained.rest]
        c2 == emit_event(c1, TurnStartedEvent(turn_id, turn_triggers))
        refreshes == SelectSeq(turn_triggers, is_refresh)
        c3 == emit_all(c2, [i \in 1..Len(refreshes) |->
                               ProfileRefreshedEvent(refreshes[i])])
    IN [c |-> c3,
        turn |-> [NoTurn EXCEPT
                    !.turn_id = turn_id,
                    !.turn_triggers = turn_triggers,
                    !.agent_triggers =
                        SelectSeq(turn_triggers, LAMBDA tr : ~is_refresh(tr)),
                    !.assistant_outputs =
                        Repeat("profile copies refreshed", Len(refreshes))]]

(***************************************************************************)
(* process_turns, up to the point where the actor awaits the LLM.  The     *)
(* result names where the actor is afterwards: back at recv, or inside     *)
(* run_turn with the turn's locals.                                        *)
(***************************************************************************)
RECURSIVE turn_loop(_)

\* (a failure that returned from process_turns at once)
finish_and_abort(c, t, outcome) ==
    LET f == finish_agent_turn(c, t, outcome)
    IN IF outcome.failed
       THEN [c |-> f.c, pc |-> "recv", turn |-> NoTurn]
       ELSE turn_loop(end_turn(f.c, f.turn))
finish_and_loop(c, t, outcome) ==
    LET f == finish_agent_turn(c, t, outcome)
    IN turn_loop(end_turn(f.c, f.turn))

\* prompt.rs build_tool_only_prompt: the feedback block is in the prompt iff
\* retry_feedback is Some.
build_tool_only_prompt(retry_feedback) == [retry_feedback_block |-> retry_feedback]

DEFAULT_REASONING_EFFORT == "extra_high"
FALLBACK_REASONING_EFFORT == "high"

\* "on attempt {semantic_attempt + 1}" of run_turn's diagnostics
NoToolCallDiagnostic(semantic_attempt) ==
    IF semantic_attempt = 0 THEN "no tool call generated on attempt 1"
    ELSE "no tool call generated on attempt 2"
DispatchedDiagnostic(semantic_attempt) ==
    IF semantic_attempt = 0 THEN "tool_calls_dispatched on attempt 1"
    ELSE "tool_calls_dispatched on attempt 2"

begin_attempt(c, t) ==
    LET c1 == emit_event(c, AgentTurnAttemptEvent(t.semantic_attempt))
        t1 == [t EXCEPT !.prompt = build_tool_only_prompt(t.retry_feedback)]
    IN
    IF ~api_key
    THEN finish_and_loop(c1, t1,
            outcome_failure("openai_error",
                            Append(t1.diagnostics, "openai request failed")))
    ELSE [c |-> emit_event(c1, OpenAiRequestStartEvent(0, DEFAULT_REASONING_EFFORT)),
          pc |-> "agent",
          turn |-> [t1 EXCEPT !.attempts = 0, !.tool_call_count = 0,
                              !.reasoning_effort = DEFAULT_REASONING_EFFORT]]

run_agent_turn(c, t) ==
    IF init_error
    THEN finish_and_loop(c, t, outcome_failure("agent_init_error", <<>>))
    ELSE begin_attempt(c, t)

turn_loop(c) ==
    IF c.state.trigger_queue = <<>>
    THEN [c |-> [c EXCEPT !.state.turn_in_progress = FALSE],
          pc |-> "recv", turn |-> NoTurn]
    ELSE LET b == begin_turn(c) IN
         IF b.turn.agent_triggers = <<>>
         THEN turn_loop(end_turn(b.c, b.turn))
         ELSE run_agent_turn(b.c, b.turn)

process_turns(c) ==
    IF c.state.turn_in_progress
    THEN [c |-> c, pc |-> "recv", turn |-> NoTurn]
    ELSE turn_loop([c EXCEPT !.state.turn_in_progress = TRUE])

(***************************************************************************)
(* Initial state: a freshly created session of a runtime with some         *)
(* task_capacity, with or without an orchestrator and an API key.          *)
(***************************************************************************)
NoReply == [to |-> "none"]

\* a session right after create_session
SessionCreated ==
    /\ task_seq = 0
    /\ trigger_seq = 0
    /\ rpc = [triggers |-> 0, cancels |-> 0, summaries |-> 0, inflight |-> {},
              idle_sends |-> 0]
    /\ mailbox = <<>>
    /\ state = SessionState_new
    /\ events = <<>>
    /\ completers = EmptyBag
    /\ reply = NoReply
    /\ llm_failures = 0
    /\ pc = "recv"
    /\ turn = NoTurn

\* no LLM response is being parsed
NoParse ==
    [status |-> "idle", partial_calls |-> <<>>, dispatched_keys |-> {},
     tool_call_count |-> 0, invocations |-> <<>>, events_seen |-> 0]

\* Vec::pop / PathBuf::pop: the sequence without its last element
pop(segments) == SubSeq(segments, 1, Len(segments) - 1)

(***************************************************************************)
(* The host filesystem under fs/real.rs: a map from the absolute paths    *)
(* that exist to what is there.  Symbolic links point outside the          *)
(* workspace, where there are no links.                                    *)
(***************************************************************************)
WorkspaceRoot == <<"ws">>

OutsideRoot == <<"etc">>

Absent == [kind |-> "none", content |-> "", target |-> <<>>]

Dir == [kind |-> "dir", content |-> "", target |-> <<>>]

File(content) == [kind |-> "file", content |-> content, target |-> <<>>]

Link(target) == [kind |-> "link", content |-> "", target |-> target]

put(d, path, node) ==
    IF node = Absent THEN d
    ELSE [p \in DOMAIN d \cup {path} |-> IF p = path THEN node ELSE d[p]]

\* Path::starts_with, component by component
starts_with(path, base) ==
    /\ Len(base) <= Len(path)
    /\ SubSeq(path, 1, Len(base)) = base

BaseDisk ==
    [p \in {<<>>, WorkspaceRoot, OutsideRoot, Append(OutsideRoot, "f")} |->
        IF p = Append(OutsideRoot, "f") THEN File("old") ELSE Dir]

InitialDisks ==
    {put(put(put(BaseDisk, Append(WorkspaceRoot, "d"), at_d),
                           Append(WorkspaceRoot, "f"), at_f),
                           WorkspaceRoot \o <<"d", "f">>, at_d_f) :
        <<at_d, at_f, at_d_f>> \in
            {n \in {Absent, Dir, Link(OutsideRoot), Link(Append(OutsideRoot, "d"))}
                   \X {Absent, File("old"), Link(Append(OutsideRoot, "f")),
                       Link(Append(OutsideRoot, "d"))}
                   \X {Absent, File("old")} :
                n[3] # Absent => n[1] = Dir}}

\* no fs:// tool call is running
NoFsCall ==
    [stage |-> "idle", op |-> "none", raw |-> <<>>, allow_override |-> FALSE,
     target |-> <<>>, ok |-> FALSE, error_code |-> "none", accessed |-> {}]

\* the profile store of a new runtime, and a caller with no managed:// call
MaxCallers == 2

NoProfiles == <<>>

NoProfile == [fields |-> <<>>, spec_version |-> 0]

NoManagedCall ==
    [stage |-> "idle", calls |-> 0, op |-> "none", entity |-> "none", id |-> "none",
     field |-> "none", content |-> <<>>, allow_override |-> FALSE,
     profile |-> NoProfile, ok |-> FALSE, error_code |-> "none",
     data_content |-> <<>>, data_bytes |-> 0, entries |-> {},
     prev |-> [op |-> "none", entity |-> "none", id |-> "none", field |-> "none",
               content |-> <<>>, allow_override |-> FALSE, ok |-> FALSE]]

StreamIdle == parse = NoParse

FilesIdle ==
    /\ disk = BaseDisk
    /\ fs_call = NoFsCall

StoreIdle ==
    /\ profiles = NoProfiles
    /\ managed = [caller \in 1..MaxCallers |-> NoManagedCall]

NoHttp == [pc |-> "idle"]
NoCopies == [pc |-> "idle"]
NoChannel == [pc |-> "idle"]
NoValidation == [pc |-> "idle"]

ServiceIdle ==
    /\ http = NoHttp
    /\ copies = NoCopies
    /\ channel = NoChannel
    /\ validation = NoValidation

ToolsIdle ==
    /\ StreamIdle
    /\ FilesIdle
    /\ StoreIdle
    /\ ServiceIdle

InitWith(workloads) ==
    /\ task_capacity \in 0..MaxCapacity
    /\ init_error \in BOOLEAN
    /\ api_key \in BOOLEAN
    /\ init_error => ~api_key
    /\ workload \in workloads
    /\ SessionCreated
    /\ ToolsIdle

Init == InitWith(Workloads)

config == <<task_capacity, init_error, api_key, workload>>
env == <<rpc, llm_failures>>

(***************************************************************************)
(* RPC callers (service.rs, runtime.rs).                                   *)
(***************************************************************************)
\* service.rs normalize_trigger: the id is assigned before the send.
RpcNormalizeTrigger(kind) ==
    /\ rpc.triggers < workload.triggers
    /\ LET trigger == [trigger_id |-> next_trigger_id(trigger_seq),
                       kind |-> kind, task_id |-> 0]
       IN rpc' = [rpc EXCEPT !.triggers = @ + 1, !.inflight = @ \cup {trigger}]
    /\ trigger_seq' = trigger_seq + 1
    /\ UNCHANGED <<tools, config, task_seq, mailbox, state, events, completers, reply, llm_failures, pc, turn>>

\* Runtime::enqueue_trigger: command_tx.send(EnqueueTrigger).  idle_sends counts
\* the triggers sent before the actor has handled anything.
RpcSendTrigger(trigger) ==
    /\ trigger \in rpc.inflight
    /\ Len(mailbox) < SESSION_CMD_BUFFER_SIZE
    /\ mailbox' = Append(mailbox, [type |-> "EnqueueTrigger", trigger |-> trigger])
    /\ rpc' = [rpc EXCEPT !.inflight = @ \ {trigger},
                          !.idle_sends = IF events = <<>> THEN @ + 1 ELSE @]
    /\ UNCHANGED <<tools, config, task_seq, trigger_seq, state, events, completers, reply, llm_failures, pc, turn>>

\* Runtime::cancel_task: any task id, known to the session or not.
RpcCancelTask(task_id) ==
    /\ rpc.cancels < workload.cancels
    /\ Len(mailbox) < SESSION_CMD_BUFFER_SIZE
    /\ mailbox' = Append(mailbox, [type |-> "CancelTask", task_id |-> task_id])
    /\ rpc' = [rpc EXCEPT !.cancels = @ + 1]
    /\ UNCHANGED <<tools, config, task_seq, trigger_seq, state, events, completers, reply, llm_failures, pc, turn>>

\* Runtime::list_sessions: command_tx.send(GetSummary).
RpcGetSummary ==
    /\ rpc.summaries < workload.summaries
    /\ Len(mailbox) < SESSION_CMD_BUFFER_SIZE
    /\ mailbox' = Append(mailbox, [type |-> "GetSummary"])
    /\ rpc' = [rpc EXCEPT !.summaries = @ + 1]
    /\ UNCHANGED <<tools, config, task_seq, trigger_seq, state, events, completers, reply, llm_failures, pc, turn>>

(***************************************************************************)
(* spawn_task_completion: after the sleep the completer sends TaskFinished *)
(* with succeeded = true.                                                  *)
(***************************************************************************)
CompleterSend(task_id) ==
    /\ BagIn(task_id, completers)
    /\ Len(mailbox) < SESSION_CMD_BUFFER_SIZE
    /\ mailbox' = Append(mailbox, [type |-> "TaskFinished", task_id |-> task_id,
                                   succeeded |-> TRUE, message |-> "completed"])
    /\ completers' = completers (-) SetToBag({task_id})
    /\ UNCHANGED <<tools, config, env, task_seq, trigger_seq, state, events, reply, pc, turn>>

(***************************************************************************)
(* run_session_actor: one action per command of the mailbox.               *)
(***************************************************************************)
recv(type) ==
    /\ pc = "recv"
    /\ mailbox # <<>>
    /\ Head(mailbox).type = type
    /\ mailbox' = Tail(mailbox)

Resume(r) ==
    /\ Commit(r.c)
    /\ pc' = r.pc
    /\ turn' = r.turn

ActorEnqueueTrigger ==
    /\ recv("EnqueueTrigger")
    /\ LET c1 == enqueue_trigger(Ctx, Head(mailbox).trigger)
           q == c1.state.trigger_queue
       IN /\ reply' = [to |-> "EnqueueTrigger",
                       trigger_id |-> IF q = <<>> THEN 0 ELSE q[Len(q)].trigger_id,
                       queue_depth |-> Len(q)]
          /\ Resume(process_turns(c1))
    /\ UNCHANGED <<tools, config, env>>

ActorGetSummary ==
    /\ recv("GetSummary")
    /\ reply' = [to |-> "GetSummary", summary |-> to_summary(state)]
    /\ UNCHANGED <<tools, config, env, task_seq, trigger_seq, state, events, completers, pc, turn>>

ActorCancelTask ==
    /\ recv("CancelTask")
    /\ LET r == cancel_task(Ctx, Head(mailbox).task_id)
       IN /\ Commit(r.c)
          /\ reply' = [to |-> "CancelTask", task_id |-> Head(mailbox).task_id] @@ r.reply
    /\ UNCHANGED <<tools, config, env, pc, turn>>

ActorTaskFinished ==
    /\ recv("TaskFinished")
    /\ LET m == Head(mailbox)
       IN Resume(process_turns(
                    handle_finished_task(Ctx, m.task_id, m.succeeded, m.message)))
    /\ UNCHANGED <<tools, config, env, reply>>

(***************************************************************************)
(* The orchestrator while the actor awaits run_turn (agent.rs, openai.rs). *)
(***************************************************************************)
\* maybe_dispatch_partial calls on_tool, which is queue_task.
OnTool ==
    /\ pc = "agent"
    /\ task_seq < workload.tasks
    /\ Commit(queue_task(emit_event(Ctx, AgentStreamEvent("openai.stream.event"))))
    /\ turn' = [turn EXCEPT !.assistant_outputs = Append(@, "queued tool"),
                            !.tool_call_count = @ + 1]
    /\ UNCHANGED <<tools, config, env, mailbox, reply, pc>>

\* stream_tool_calls: a retryable failure with retries left.
StreamRetry ==
    /\ pc = "agent"
    /\ turn.attempts < max_retries
    /\ llm_failures < workload.failures
    /\ llm_failures' = llm_failures + 1
    /\ Commit(emit_all(Ctx, <<AgentStreamEvent("openai.request.retry"),
                              OpenAiRequestStartEvent(turn.attempts + 1,
                                                      turn.reasoning_effort)>>))
    /\ turn' = [turn EXCEPT !.attempts = @ + 1, !.tool_call_count = 0]
    /\ UNCHANGED <<tools, config, rpc, mailbox, reply, pc>>

\* stream_tool_calls: HTTP 400 naming "reasoning" and "effort" while the effort is
\* the default: fall back to the lower effort, attempts += 1, continue the loop
\* `while attempts <= max_retries`.
StreamFallback ==
    /\ pc = "agent"
    /\ turn.tool_call_count = 0
    /\ turn.reasoning_effort = DEFAULT_REASONING_EFFORT
    /\ llm_failures < workload.failures
    /\ llm_failures' = llm_failures + 1
    /\ LET c1 == emit_event(Ctx, AgentStreamEvent("openai.request.fallback"))
           t1 == [turn EXCEPT !.reasoning_effort = FALLBACK_REASONING_EFFORT,
                              !.attempts = @ + 1]
       IN IF t1.attempts <= max_retries
          THEN Resume([c |-> emit_event(c1, OpenAiRequestStartEvent(t1.attempts,
                                                                   t1.reasoning_effort)),
                       pc |-> "agent", turn |-> t1])
          ELSE Resume(finish_and_loop(c1, t1,
                        outcome_failure("openai_error",
                                        Append(t1.diagnostics, "openai request failed"))))
    /\ UNCHANGED <<tools, config, rpc, mailbox, reply>>

\* stream_tool_calls returns Err: run_turn fails with openai_error.
StreamErr ==
    /\ pc = "agent"
    /\ turn.tool_call_count = 0 \/ turn.attempts >= max_retries
    /\ Resume(finish_and_loop(Ctx, turn,
                outcome_failure("openai_error",
                                Append(turn.diagnostics, "openai request failed"))))
    /\ UNCHANGED <<tools, config, env, mailbox, reply>>

\* run_turn: `if semantic_attempt == 0` the loop continues with retry feedback.
may_retry_never(semantic_attempt) == FALSE
may_retry(semantic_attempt) == semantic_attempt = 0

\* stream_tool_calls returns Ok(outcome): success, semantic retry or no_tool_call.
StreamOk ==
    /\ pc = "agent"
    /\ LET n == turn.tool_call_count
           diag == turn.diagnostics \o Repeat("dispatched tool_call", n)
           none == Append(diag, NoToolCallDiagnostic(turn.semantic_attempt))
       IN IF n > 0
          THEN Resume(finish_and_loop(Ctx, turn,
                        outcome_success(n,
                            Append(diag, DispatchedDiagnostic(turn.semantic_attempt)))))
          ELSE IF may_retry(turn.semantic_attempt)
          THEN Resume(begin_attempt(Ctx,
                        [turn EXCEPT !.semantic_attempt = @ + 1,
                                     !.retry_feedback = TRUE,
                                     !.diagnostics = none]))
          ELSE Resume(finish_and_loop(Ctx, turn, outcome_failure("no_tool_call", none)))
    /\ UNCHANGED <<tools, config, env, mailbox, reply>>

Next ==
    \/ \E kind \in ClientKinds : RpcNormalizeTrigger(kind)
    \/ \E trigger \in rpc.inflight : RpcSendTrigger(trigger)
    \/ \E task_id \in 1..MaxTasks : RpcCancelTask(task_id)
    \/ RpcGetSummary
    \/ \E task_id \in DOMAIN state.tasks : CompleterSend(task_id)
    \/ ActorEnqueueTrigger
    \/ ActorGetSummary
    \/ ActorCancelTask
    \/ ActorTaskFinished
    \/ OnTool
    \/ StreamRetry
    \/ StreamFallback
    \/ StreamErr
    \/ StreamOk

Spec == Init /\ [][Next]_vars

(***************************************************************************)
(* The session under fair scheduling: the tokio runtime runs the actor     *)
(* task whenever a command waits, every completer wakes from its sleep and *)
(* sends, and every call of the orchestrator returns.  RPC callers and     *)
(* LLM failures are not forced.  One workload with every kind of command.  *)
(***************************************************************************)
LiveWorkload ==
    [triggers |-> 1, tasks |-> 2, cancels |-> MaxCancels, summaries |-> MaxSummaries,
     failures |-> 1]

\* the steps of the actor: it takes the head of the mailbox
ActorReceives ==
    /\ pc = "recv"
    /\ mailbox # <<>>
    /\ mailbox' = Tail(mailbox)
\* the steps of the completer of task_id: it leaves the bag of sleepers
CompleterWakes(task_id) ==
    /\ BagIn(task_id, completers)
    /\ Len(mailbox) < SESSION_CMD_BUFFER_SIZE
    /\ completers' = completers (-) SetToBag({task_id})
\* the steps in which run_turn returns: the actor is back at recv
OrchestratorReturns ==
    /\ pc = "agent"
    /\ pc' = "recv"

Fairness ==
    /\ WF_mailbox(ActorReceives)
    /\ \A task_id \in 1..MaxTasks : WF_completers(CompleterWakes(task_id))
    /\ WF_pc(OrchestratorReturns)

LiveSpec == InitWith({LiveWorkload}) /\ [][Next]_vars /\ Fairness

(***************************************************************************)
(* parse_stream (agent/openai.rs): one LLM response, event by event.       *)
(* Keys and call ids are pairs <<kind, n>>; None is the absent JSON field. *)
(* An arguments string is modelled by the number of JSON objects it holds: *)
(* 0 is the empty string, 1 parses as JSON, 2 or more does not.            *)
(***************************************************************************)
MaxCalls == 2
MaxStreamEvents == 3

None == <<"none", 0>>
NoName == "none"
unknown_call == <<"unknown_call", 0>>
ItemId(call) == <<"item", call>>
CallId(call) == <<"call", call>>

KnownTools == {"schedule_heartbeat"}
ToolNames == {"schedule_heartbeat", "no_such_tool"}

ItemEventTypes == {"response.output_item.added", "response.output_item.done"}
ArgumentEventTypes ==
    {"response.function_call_arguments.delta", "response.function_call_arguments.done"}

EventOfCall(e, call) ==
    /\ e.id \in {None, ItemId(call)}
    /\ e.call_id \in {None, CallId(call)}

\* the payloads of one stream: each is about one call of the response and carries
\* any of that call's ids, a tool name or none, and an arguments string or delta;
\* an output item that is not a function call carries nothing of interest
StreamEvents ==
    {e \in [type : ItemEventTypes \cup ArgumentEventTypes,
            item_type : {"function_call", "message"},
            id : {None} \cup {ItemId(call) : call \in 1..MaxCalls},
            call_id : {None} \cup {CallId(call) : call \in 1..MaxCalls},
            name : {NoName} \cup ToolNames,
            text : 0..1] :
        /\ \E call \in 1..MaxCalls : EventOfCall(e, call)
        /\ e.item_type = "message" =>
              /\ e.type \in ItemEventTypes
              /\ e.call_id = None /\ e.name = NoName /\ e.text = 0}

unwrap_or(value, default) == IF value = None THEN default ELSE value
or_else(value, other) == IF value = None THEN other ELSE value

extract_call_key(value) == or_else(value.id, value.call_id)

\* serde_json::from_str on an arguments string
is_json(arguments_raw) == arguments_raw = 1
\* ToolRegistry::validate, for arguments that parse
validate(tool_name, arguments_raw) == tool_name \in KnownTools

\* String::push_str, on the model of arguments strings
push_str(arguments, delta) == IF arguments + delta > 2 THEN 2 ELSE arguments + delta

\* HashMap::entry(key).or_insert(value)
or_insert(partial_calls, key, value) ==
    IF key \in DOMAIN partial_calls THEN partial_calls
    ELSE [k \in DOMAIN partial_calls \cup {key} |->
             IF k = key THEN value ELSE partial_calls[k]]

PartialToolCall(value) == [call_id |-> value.call_id, name |-> value.name, arguments |-> 0]

ParseError(p) == [p EXCEPT !.status = "error"]

dispatch_key_of(call_id, key) == unwrap_or(call_id, key)

\* maybe_dispatch_partial; `value` is the payload being handled (kept with the
\* invocation so that properties can name the stream call id that caused it)
maybe_dispatch_partial(p, key, tool_name, arguments_raw, call_id, value) ==
    IF arguments_raw = 0 THEN p
    ELSE
      LET dispatch_key == dispatch_key_of(call_id, key) IN
      IF dispatch_key \in p.dispatched_keys THEN p
      ELSE IF ~is_json(arguments_raw) THEN ParseError(p)
      ELSE IF ~validate(tool_name, arguments_raw) THEN ParseError(p)
      ELSE [p EXCEPT
              !.invocations = Append(@, [tool_name |-> tool_name, call_id |-> call_id,
                                         dispatch_key |-> dispatch_key,
                                         event |-> value]),
              !.dispatched_keys = @ \cup {dispatch_key},
              !.tool_call_count = @ + 1]

maybe_finalize_item(p, item) ==
    IF item.item_type # "function_call" THEN p
    ELSE
      LET key == unwrap_or(or_else(item.id, item.call_id), unknown_call)
          inserted == or_insert(p.partial_calls, key, PartialToolCall(item))
          named == IF item.name # NoName
                   THEN [inserted EXCEPT ![key].name = item.name] ELSE inserted
          filled == IF item.text # 0
                    THEN [named EXCEPT ![key].arguments = item.text] ELSE named
          entry == filled[key]
          p1 == [p EXCEPT !.partial_calls = filled]
      IN IF entry.name # NoName
         THEN maybe_dispatch_partial(p1, key, entry.name, entry.arguments,
                                     entry.call_id, item)
         ELSE p1

handle_stream_event(p, value) ==
    IF value.type \in ItemEventTypes THEN maybe_finalize_item(p, value)
    ELSE
      LET key == unwrap_or(extract_call_key(value), unknown_call)
          inserted == or_insert(p.partial_calls, key, PartialToolCall(value))
      IN IF value.type = "response.function_call_arguments.delta"
         THEN [p EXCEPT !.partial_calls =
                  [inserted EXCEPT ![key].arguments = push_str(@, value.text)]]
         ELSE
           LET filled == [inserted EXCEPT ![key].arguments = value.text]
               partial == filled[key]
               p1 == [p EXCEPT !.partial_calls = filled]
           IN IF partial.name # NoName
              THEN maybe_dispatch_partial(p1, key, partial.name, partial.arguments,
                                          partial.call_id, value)
              ELSE p1

\* a successful HTTP response arrives: parse_stream starts with empty maps
ParseBegin ==
    /\ parse.status = "idle"
    /\ parse' = [NoParse EXCEPT !.status = "open"]
    /\ UNCHANGED <<session, files, store, service>>

\* one `data:` line with a JSON payload
ParseEvent(value) ==
    /\ parse.status = "open"
    /\ parse.events_seen < MaxStreamEvents
    /\ parse' = [handle_stream_event(parse, value) EXCEPT !.events_seen = @ + 1]
    /\ UNCHANGED <<session, files, store, service>>

\* `data: [DONE]`, or the byte stream ends: Ok(outcome)
ParseDone ==
    /\ parse.status = "open"
    /\ parse' = [parse EXCEPT !.status = "done"]
    /\ UNCHANGED <<session, files, store, service>>

\* a "response.error" payload, a chunk error or a payload that is not JSON: Err
ParseFail ==
    /\ parse.status = "open"
    /\ parse' = ParseError(parse)
    /\ UNCHANGED <<session, files, store, service>>

ParseNext ==
    \/ ParseBegin
    \/ \E value \in StreamEvents : ParseEvent(value)
    \/ ParseDone
    \/ ParseFail

\* the session of the response does not matter to the parse
SessionParked ==
    /\ task_capacity = 0
    /\ init_error = FALSE
    /\ api_key = TRUE
    /\ workload = LiveWorkload
    /\ SessionCreated

ParseInit ==
    /\ SessionParked
    /\ ToolsIdle

ParseSpec == ParseInit /\ [][ParseNext]_vars

(***************************************************************************)
(* fs:// paths (fs/path.rs).  A raw path is the text after the scheme,    *)
(* held as its "/"-separated pieces: "d/../f" is <<"d", "..", "f">>, and  *)
(* a text that starts with "/" has an empty first piece.                   *)
(***************************************************************************)
MaxSegments == 3

SegmentNames == {"d", "f"}

RawSegments == SegmentNames \cup {"", ".", ".."}

RawPaths == UNION {[1..n -> RawSegments] : n \in 1..MaxSegments}

\* raw.starts_with('/')
starts_with_slash(raw) == Len(raw) >= 2 /\ raw[1] = ""

Component(kind, segment) == [kind |-> kind, segment |-> segment]

\* Path::new(raw).components(): a root first, "." only in first place,
\* repeated separators and inner "." skipped
RECURSIVE components(_, _)
components(raw, i) ==
    IF i > Len(raw) THEN <<>>
    ELSE LET rest == components(raw, i + 1)
         IN CASE raw[i] = ""   -> IF i = 1 /\ Len(raw) >= 2
                                  THEN <<Component("RootDir", "")>> \o rest ELSE rest
              [] raw[i] = "."  -> IF i = 1
                                  THEN <<Component("CurDir", "")>> \o rest ELSE rest
              [] raw[i] = ".." -> <<Component("ParentDir", "")>> \o rest
              [] OTHER         -> <<Component("Normal", raw[i])>> \o rest

FsError(error_code) == [ok |-> FALSE, error_code |-> error_code, rel_path |-> <<>>]

pop_is_none_never(segments) == FALSE

\* segments.pop().is_none()
pop_is_none(segments) == segments = <<>>

\* the loop of normalize_fs_relative and what follows it
RECURSIVE normalize_components(_, _)
normalize_components(comps, segments) ==
    IF comps = <<>>
    THEN [ok |-> TRUE, error_code |-> "none",
          rel_path |-> IF segments = <<>> THEN <<".">> ELSE segments]
    ELSE CASE Head(comps).kind = "CurDir" ->
                normalize_components(Tail(comps), segments)
           [] Head(comps).kind = "Normal" ->
                normalize_components(Tail(comps), Append(segments, Head(comps).segment))
           [] Head(comps).kind = "ParentDir" ->
                IF pop_is_none(segments) THEN FsError("permission_denied")
                ELSE normalize_components(Tail(comps), pop(segments))
           [] OTHER -> FsError("invalid_path")

normalize_fs_relative(raw) ==
    IF starts_with_slash(raw) THEN FsError("invalid_path")
    ELSE normalize_components(components(raw, 1), <<>>)

parse_real_path(rest) == normalize_fs_relative(rest)

(***************************************************************************)
(* fs/real.rs on the host filesystem.                                      *)
(***************************************************************************)
NotFound(path, last) == [found |-> FALSE, path |-> path, last |-> last]

\* what the kernel does with a path: walk it from `at`, following links
RECURSIVE lookup(_, _, _)
lookup(d, at, rest) ==
    IF rest = <<>> THEN [found |-> TRUE, path |-> at, last |-> TRUE]
    ELSE IF Head(rest) = "." THEN lookup(d, at, Tail(rest))
    ELSE LET entry == Append(at, Head(rest))
             last == Tail(rest) = <<>>
         IN IF entry \notin DOMAIN d THEN NotFound(entry, last)
            ELSE CASE d[entry].kind = "link" ->
                        LET t == d[entry].target
                        IN IF t \notin DOMAIN d THEN NotFound(t, last)
                           ELSE IF d[t].kind # "dir" /\ ~last THEN NotFound(t, FALSE)
                           ELSE lookup(d, t, Tail(rest))
                   [] d[entry].kind = "file" /\ ~last -> NotFound(entry, FALSE)
                   [] OTHER -> lookup(d, entry, Tail(rest))

\* Path::exists (follows links)
exists(d, path) == lookup(d, <<>>, path).found

\* fs::canonicalize of a path that exists
canonicalize(d, path) == lookup(d, <<>>, path).path

\* the `while !probe.exists()` loop
RECURSIVE deepest_existing(_, _)
deepest_existing(d, probe) ==
    IF exists(d, probe) \/ probe = <<>> THEN probe
    ELSE deepest_existing(d, pop(probe))

ensure_path_stays_within_workspace(d, workspace_root, target) ==
    LET probe == deepest_existing(d, target)
    IN IF ~exists(d, probe) THEN FsError("permission_denied")
       ELSE IF ~exists(d, workspace_root) THEN FsError("not_found")
       ELSE IF ~starts_with(canonicalize(d, probe), canonicalize(d, workspace_root))
            THEN FsError("permission_denied")
       ELSE [ok |-> TRUE, error_code |-> "none", rel_path |-> <<>>]

IoResult(d, ok, error_code, accessed) ==
    [disk |-> d, ok |-> ok, error_code |-> error_code, accessed |-> accessed]

IoError(d, error_code, accessed) == IoResult(d, FALSE, error_code, accessed)

Access(kind, path) == [access |-> kind, path |-> path]

\* fs::create_dir_all
RECURSIVE create_dir_all(_, _, _)
create_dir_all(d, at, rest) ==
    IF rest = <<>> THEN IoResult(d, TRUE, "none", {})
    ELSE IF Head(rest) = "." THEN create_dir_all(d, at, Tail(rest))
    ELSE LET entry == Append(at, Head(rest))
         IN IF entry \notin DOMAIN d
            THEN create_dir_all(put(d, entry, Dir), entry, Tail(rest))
            ELSE CASE d[entry].kind = "dir" -> create_dir_all(d, entry, Tail(rest))
                   [] d[entry].kind = "link" ->
                        LET t == d[entry].target
                        IN IF t \in DOMAIN d /\ d[t].kind = "dir"
                           THEN create_dir_all(d, t, Tail(rest))
                           ELSE IoError(d, "already_exists", {})
                   [] OTHER -> IoError(d, IF Tail(rest) = <<>> THEN "already_exists"
                                          ELSE "not_directory", {})

\* fs::write: open(O_CREAT | O_TRUNC), which follows a link in last place
fs_write(d, target, content) ==
    LET l == lookup(d, <<>>, target)
    IN IF l.found
       THEN IF d[l.path].kind = "file"
            THEN IoResult(put(d, l.path, File(content)), TRUE, "none",
                          {Access("write", l.path)})
            ELSE IoError(d, "not_file", {})
       ELSE IF l.last /\ l.path # <<>> /\ pop(l.path) \in DOMAIN d
                      /\ d[pop(l.path)].kind = "dir"
            THEN IoResult(put(d, l.path, File(content)), TRUE, "none",
                          {Access("write", l.path)})
            ELSE IoError(d, "not_found", {})

\* real::list after resolve_real_path
list_io(d, target) ==
    LET l == lookup(d, <<>>, target)
    IN IF ~l.found THEN IoError(d, "not_found", {})
       ELSE IF d[l.path].kind # "dir" THEN IoError(d, "not_directory", {})
       ELSE IoResult(d, TRUE, "none", {Access("read", l.path)})

\* real::read after resolve_real_path
read_io(d, target) ==
    LET l == lookup(d, <<>>, target)
    IN IF ~l.found THEN IoError(d, "not_found", {})
       ELSE IF d[l.path].kind # "file" THEN IoError(d, "not_file", {})
       ELSE IoResult(d, TRUE, "none", {Access("read", l.path)})

\* real::write after resolve_real_path
write_io(d, target, content, allow_override) ==
    LET l == lookup(d, <<>>, target)
    IN IF l.found /\ d[l.path].kind # "file" THEN IoError(d, "not_file", {})
       ELSE IF l.found /\ ~allow_override THEN IoError(d, "already_exists", {})
       ELSE LET made == create_dir_all(d, <<>>, pop(target))
            IN IF ~made.ok THEN made
               ELSE fs_write(made.disk, target, content)

\* real::replace after resolve_real_path; `old` is the whole of "old"
replace_io(d, target, old, new) ==
    LET l == lookup(d, <<>>, target)
    IN IF ~l.found THEN IoError(d, "not_found", {})
       ELSE IF d[l.path].kind # "file" THEN IoError(d, "not_file", {})
       ELSE LET current == d[l.path].content
                updated == IF current = old THEN new ELSE current
                written == fs_write(d, target, updated)
            IN [written EXCEPT !.accessed = @ \cup {Access("read", l.path)}]

FsOps == {"list", "read", "write", "replace"}

\* execute_list / execute_read / execute_write / execute_replace up to the
\* backend call: parse_path, then workspace_root.join(rel_path)
FsExecute(op, raw, allow_override) ==
    /\ fs_call.stage = "idle"
    /\ allow_override => op = "write"
    /\ LET parsed == parse_real_path(raw)
           started == [NoFsCall EXCEPT !.op = op, !.raw = raw,
                                       !.allow_override = allow_override]
       IN fs_call' = IF parsed.ok
                     THEN [started EXCEPT !.stage = "resolve",
                                          !.target = WorkspaceRoot \o parsed.rel_path]
                     ELSE [started EXCEPT !.stage = "done",
                                          !.error_code = parsed.error_code]
    /\ UNCHANGED <<session, stream, store, service, disk>>

\* resolve_real_path
FsResolve ==
    /\ fs_call.stage = "resolve"
    /\ LET checked == ensure_path_stays_within_workspace(disk, WorkspaceRoot, fs_call.target)
       IN fs_call' = IF checked.ok THEN [fs_call EXCEPT !.stage = "io"]
                     ELSE [fs_call EXCEPT !.stage = "done",
                                          !.error_code = checked.error_code]
    /\ UNCHANGED <<session, stream, store, service, disk>>

\* the rest of real::list / read / write / replace
FsIo ==
    /\ fs_call.stage = "io"
    /\ LET io == CASE fs_call.op = "list" -> list_io(disk, fs_call.target)
                   [] fs_call.op = "read" -> read_io(disk, fs_call.target)
                   [] fs_call.op = "write" ->
                        write_io(disk, fs_call.target, "new", fs_call.allow_override)
                   [] OTHER -> replace_io(disk, fs_call.target, "old", "new")
       IN /\ disk' = io.disk
          /\ fs_call' = [fs_call EXCEPT !.stage = "done", !.ok = io.ok,
                                        !.error_code = io.error_code,
                                        !.accessed = io.accessed]
    /\ UNCHANGED <<session, stream, store, service>>

\* another process puts a link in place of a workspace entry after
\* resolve_real_path returned and before the I/O
WorkspaceChanges(name, target) ==
    /\ fs_call.stage = "io"
    /\ Append(WorkspaceRoot, name) \in DOMAIN disk
        => disk[Append(WorkspaceRoot, name)].kind # "link"
    /\ disk' = [p \in {q \in DOMAIN disk : ~(starts_with(q, Append(WorkspaceRoot, name)))}
                      \cup {Append(WorkspaceRoot, name)} |->
                   IF p = Append(WorkspaceRoot, name) THEN Link(target) ELSE disk[p]]
    /\ UNCHANGED <<session, stream, store, service, fs_call>>

FsNext ==
    \/ \E op \in FsOps, raw \in RawPaths, allow_override \in BOOLEAN :
          FsExecute(op, raw, allow_override)
    \/ FsResolve
    \/ FsIo
    \/ \E name \in SegmentNames : WorkspaceChanges(name, OutsideRoot)

FsInit ==
    /\ SessionParked
    /\ StreamIdle
    /\ StoreIdle
    /\ ServiceIdle
    /\ fs_call = NoFsCall
    /\ disk \in InitialDisks

FsSpec == FsInit /\ [][FsNext]_vars

(***************************************************************************)
(* managed:// paths: the profile store of the runtime (runtime.rs) and    *)
(* fs/managed.rs on it.  A content is a sequence of characters, so that    *)
(* its length in bytes is not its length in characters.                    *)
(***************************************************************************)
MaxManagedCalls == 2

AGENT_FIELDS ==
    {"agents_md", "soul_md", "identity_md", "guidelines_md", "code_of_conduct_md",
     "long_term_memory_md"}

USER_FIELDS == {"user_md", "preferences_json", "long_term_memory_md", "name", "nickname"}

allowed_fields(entity) == IF entity = "agent" THEN AGENT_FIELDS ELSE USER_FIELDS

ManagedEntities == {"agent", "user"}

\* the fields a call may name: none (the entity root), two real ones, and
\* one that no entity has; soul_md is an agent field only
PathFields == {NoName, "long_term_memory_md", "soul_md", "bogus"}

WriteContents == {<<"h">>, <<"e'", "E=">>}

\* char::len_utf8 of "h", of e-acute and of the euro sign
len_utf8(ch) == CASE ch = "e'" -> 2 [] ch = "E=" -> 3 [] OTHER -> 1

\* String::len: the length in UTF-8 bytes
RECURSIVE len(_)
len(content) == IF content = <<>> THEN 0 ELSE len_utf8(Head(content)) + len(Tail(content))

\* default_agent_profile / default_user_profile: every field starts non-empty
default_profile(entity, id) ==
    [fields |-> [f \in allowed_fields(entity) |-> <<"#">>],
     spec_version |-> IF entity = "agent" THEN 1 ELSE 0]

\* the store after get_or_create_agent_profile / get_or_create_user_profile
get_or_create_profile(profs, entity, id) ==
    IF <<entity, id>> \in DOMAIN profs THEN profs
    ELSE [k \in DOMAIN profs \cup {<<entity, id>>} |->
             IF k = <<entity, id>> THEN default_profile(entity, id) ELSE profs[k]]

\* the store after upsert_agent_profile / upsert_user_profile
upsert_profile(profs, entity, id, profile) ==
    LET current_version == IF <<entity, id>> \in DOMAIN profs
                           THEN profs[<<entity, id>>].spec_version ELSE 0
        stored == IF entity = "agent" /\ profile.spec_version = 0
                  THEN [profile EXCEPT !.spec_version =
                           (IF current_version > 1 THEN current_version ELSE 1) + 1]
                  ELSE profile
    IN [k \in DOMAIN profs \cup {<<entity, id>>} |->
           IF k = <<entity, id>> THEN stored ELSE profs[k]]

validate_field_any(entity, field) == TRUE

\* validate_field returns Ok
validate_field(entity, field) == field \in allowed_fields(entity)

\* the error of require_field, "none" when it returns the field
require_field(entity, field) ==
    IF field = NoName THEN "not_file"
    ELSE IF ~validate_field(entity, field) THEN "invalid_path"
    ELSE "none"

\* read_agent_field / read_user_field find the field
has_field(profile, field) == field \in DOMAIN profile.fields

\* current.find(old): where `old` first starts in `current`, 0 if nowhere
find(current, old) ==
    LET starts == {i \in 1..(Len(current) - Len(old) + 1) :
                      SubSeq(current, i, i + Len(old) - 1) = old}
    IN IF starts = {} THEN 0 ELSE CHOOSE i \in starts : \A j \in starts : i <= j

\* apply_replace: [updated, replacements]
RECURSIVE apply_replace(_, _, _, _)
apply_replace(current, old, new, mode) ==
    LET start == find(current, old)
    IN IF start = 0 THEN [updated |-> current, replacements |-> 0]
       ELSE LET head == SubSeq(current, 1, start - 1) \o new
                tail == SubSeq(current, start + Len(old), Len(current))
                rest == IF mode = "all" THEN apply_replace(tail, old, new, mode)
                        ELSE [updated |-> tail, replacements |-> 0]
            IN [updated |-> head \o rest.updated, replacements |-> 1 + rest.replacements]

ManagedOps == {"list", "read", "write", "replace"}

\* how many calls a caller makes; the first caller makes calls of every
\* kind, the others are writers that run beside it
CallBudget(caller) == IF caller = 1 THEN MaxManagedCalls ELSE 1

Summary(m) ==
    [op |-> m.op, entity |-> m.entity, id |-> m.id, field |-> m.field,
     content |-> m.content, allow_override |-> m.allow_override, ok |-> m.ok]

ManagedFailure(m, error_code) == [m EXCEPT !.stage = "done", !.error_code = error_code]

ManagedSuccess(m) == [m EXCEPT !.stage = "done", !.ok = TRUE]

\* managed::list / read / write / replace up to and including the call of
\* get_or_create_*_profile and what follows it without another await;
\* write and replace stop before upsert_*_profile
ManagedExecute(caller, op, entity, field, content, allow_override) ==
    /\ managed[caller].stage \in {"idle", "done"}
    /\ managed[caller].calls < CallBudget(caller)
    /\ allow_override => op = "write"
    /\ content # <<>> <=> op \in {"write", "replace"}
    /\ op = "replace" => content = <<"h">>
    /\ caller > 1 => op \in {"write", "replace"} /\ (op = "write" => allow_override)
    /\ LET m == [NoManagedCall EXCEPT
                    !.calls = managed[caller].calls + 1, !.op = op, !.entity = entity,
                    !.id = "a", !.field = field, !.content = content,
                    !.allow_override = allow_override,
                    !.prev = Summary(managed[caller])]
           loaded == get_or_create_profile(profiles, entity, "a")
           profile == loaded[<<entity, "a">>]
           error_code == require_field(entity, field)
       IN CASE op = "list" ->
                 /\ profiles' = loaded
                 /\ managed' = [managed EXCEPT ![caller] =
                       IF field # NoName /\ ~validate_field(entity, field)
                       THEN ManagedFailure(m, "invalid_path")
                       ELSE ManagedSuccess([m EXCEPT !.entries =
                               IF field # NoName THEN {field} ELSE allowed_fields(entity)])]
            [] error_code # "none" ->
                 /\ profiles' = profiles
                 /\ managed' = [managed EXCEPT ![caller] = ManagedFailure(m, error_code)]
            [] ~has_field(profile, field) ->
                 /\ profiles' = loaded
                 /\ managed' = [managed EXCEPT ![caller] = ManagedFailure(m, "invalid_path")]
            [] op = "read" ->
                 /\ profiles' = loaded
                 /\ managed' = [managed EXCEPT ![caller] =
                       ManagedSuccess([m EXCEPT !.data_content = profile.fields[field],
                                                !.data_bytes = len(profile.fields[field])])]
            [] op = "write" ->
                 /\ profiles' = loaded
                 /\ managed' = [managed EXCEPT ![caller] =
                       IF ~allow_override /\ profile.fields[field] # <<>>
                       THEN ManagedFailure(m, "already_exists")
                       ELSE [m EXCEPT !.stage = "upsert",
                                      !.profile = [profile EXCEPT !.fields[field] = content,
                                                                  !.spec_version = 0],
                                      !.data_bytes = len(content)]]
            [] OTHER ->
                 /\ profiles' = loaded
                 /\ managed' = [managed EXCEPT ![caller] =
                       LET replaced == apply_replace(profile.fields[field], <<"#">>,
                                                     content, "first")
                       IN [m EXCEPT !.stage = "upsert",
                                    !.profile = [profile EXCEPT
                                                    !.fields[field] = replaced.updated,
                                                    !.spec_version = 0],
                                    !.data_bytes = len(replaced.updated)]]
    /\ UNCHANGED <<session, stream, files, service>>

\* the call of upsert_*_profile in managed::write / replace, and the return
ManagedUpsert(caller) ==
    /\ managed[caller].stage = "upsert"
    /\ profiles' = upsert_profile(profiles, managed[caller].entity, managed[caller].id,
                                  managed[caller].profile)
    /\ managed' = [managed EXCEPT ![caller] = ManagedSuccess(managed[caller])]
    /\ UNCHANGED <<session, stream, files, service>>

\* managed::replace called with old = "": the check of old comes first and
\* returns invalid_args before the path is looked at or the store is touched
ManagedReplaceEmptyOld(caller, entity, field) ==
    /\ managed[caller].stage \in {"idle", "done"}
    /\ managed[caller].calls < CallBudget(caller)
    /\ managed' = [managed EXCEPT ![caller] =
          ManagedFailure([NoManagedCall EXCEPT
                             !.calls = managed[caller].calls + 1, !.op = "replace",
                             !.entity = entity, !.id = "a", !.field = field,
                             !.content = <<"h">>,
                             !.prev = Summary(managed[caller])],
                         "invalid_args")]
    /\ UNCHANGED <<profiles, session, stream, files, service>>

ManagedNext ==
    \/ \E caller \in 1..MaxCallers, op \in ManagedOps, entity \in ManagedEntities,
          field \in PathFields, content \in WriteContents \cup {<<>>},
          allow_override \in BOOLEAN :
          ManagedExecute(caller, op, entity, field, content, allow_override)
    \/ \E caller \in 1..MaxCallers : ManagedUpsert(caller)
    \/ \E caller \in 1..MaxCallers, entity \in ManagedEntities, field \in PathFields :
          ManagedReplaceEmptyOld(caller, entity, field)

ManagedInit ==
    /\ SessionParked
    /\ ToolsIdle

ManagedSpec == ManagedInit /\ [][ManagedNext]_vars

(***************************************************************************)
(* Reading the event log.                                                  *)
(***************************************************************************)
EventIdx == 1..Len(events)
IsTaskEvent(i, task_id) ==
    /\ events[i].type = "TaskStateChanged"
    /\ events[i].task_id = task_id
IsTaskStatus(i, task_id, statuses) ==
    /\ IsTaskEvent(i, task_id)
    /\ events[i].status \in statuses
IsAccepted(i) == events[i].type = "TriggerAccepted"
IsTurnStarted(i) == events[i].type = "TurnStarted"
TaskIds == 1..task_seq
AcceptedIds == {events[i].trigger.trigger_id : i \in {j \in EventIdx : IsAccepted(j)}}
\* the TurnStarted events whose turn drained trigger x
StartsOf(x) == {i \in EventIdx : IsTurnStarted(i) /\ x \in SeqToSet(events[i].trigger_ids)}
AcceptsOf(x) == {i \in EventIdx : IsAccepted(i) /\ events[i].trigger.trigger_id = x}
TurnStartedEvents == SelectSeq(events, LAMBDA e : e.type = "TurnStarted")
\* TaskFinished(task_id) was sent by the completer and received by the actor
FinishedDelivered(task_id) ==
    /\ \E i \in EventIdx : IsTaskStatus(i, task_id, {"running"})
    /\ ~BagIn(task_id, completers)
    /\ \A k \in 1..Len(mailbox) :
          ~(mailbox[k].type = "TaskFinished" /\ mailbox[k].task_id = task_id)
\* task_id was queued as pending and later promoted
WasPromoted(task_id) ==
    \E i, j \in EventIdx :
        /\ i < j
        /\ IsTaskStatus(i, task_id, {"pending"})
        /\ IsTaskStatus(j, task_id, {"running"})

(***************************************************************************)
(* C1: in every reachable state the number of running task ids is at most  *)
(* task_capacity.                                                          *)
(***************************************************************************)
C1_RunningWithinCapacity ==
    Cardinality(state.running_task_ids) <= task_capacity

\* the pool is full, a task waits, and a waiting task has been promoted before
C1_Witness ==
    /\ task_capacity >= 1
    /\ Cardinality(state.running_task_ids) = task_capacity
    /\ state.pending_task_ids # <<>>
    /\ \E t \in TaskIds : WasPromoted(t)

(***************************************************************************)
(* C2: once a TaskStateChanged with a terminal status was emitted for a    *)
(* task id, no later TaskStateChanged for that id is pending or running.   *)
(***************************************************************************)
C2_TerminalSticky ==
    \A i, j \in EventIdx :
        (i < j /\ events[i].type = "TaskStateChanged"
               /\ events[j].type = "TaskStateChanged"
               /\ events[i].task_id = events[j].task_id
               /\ events[i].status \in Terminal)
        => events[j].status \in Terminal

\* a task finished, and afterwards a CancelTask for it was handled
C2_Witness ==
    \E t \in TaskIds :
        /\ \E i \in EventIdx : IsTaskStatus(i, t, {"succeeded"})
        /\ reply.to = "CancelTask"
        /\ reply.task_id = t
        /\ reply.error = ""
        /\ ~reply.canceled

AcceptedCount == Cardinality({i \in EventIdx : IsAccepted(i)})
TurnCountSum ==
    SumSeq([k \in 1..Len(TurnStartedEvents) |-> TurnStartedEvents[k].trigger_count])
DrainedCount(x) ==
    SumSeq([k \in 1..Len(TurnStartedEvents) |->
               Count(TurnStartedEvents[k].trigger_ids, x)])
QueuedCount(x) ==
    Cardinality({k \in 1..Len(state.trigger_queue) :
                    state.trigger_queue[k].trigger_id = x})

C4_AcceptedCountedOnce ==
    /\ AcceptedCount = TurnCountSum + Len(state.trigger_queue)
    /\ \A x \in AcceptedIds : DrainedCount(x) + QueuedCount(x) = 1

\* a refresh trigger, a task_done trigger and a user trigger have been through turns
C4_Witness ==
    /\ Len(TurnStartedEvents) >= 3
    /\ \A kind \in {"user_message", "refresh_profile", "task_done"} :
          \E i \in EventIdx : IsAccepted(i) /\ events[i].trigger.kind = kind
    /\ pc = "recv"

(***************************************************************************)
(* C5: the TurnStarted events carry the turn ids 1, 2, 3, ... in this      *)
(* order, without gaps or repeats.                                         *)
(***************************************************************************)
C5_TurnIdsSequential ==
    \A k \in 1..Len(TurnStartedEvents) : TurnStartedEvents[k].turn_id = k

\* four turns have run, one of them for a task completion
C5_Witness ==
    /\ Len(TurnStartedEvents) = 4
    /\ state.turn_seq = 4
    /\ \E i \in EventIdx : IsAccepted(i) /\ events[i].trigger.kind = "task_done"

(***************************************************************************)
(* C6: three EnqueueTrigger commands sent to an idle session, with an      *)
(* orchestrator that yields no tool call, are coalesced into one turn:     *)
(* exactly one TurnStarted(1, trigger_count 3), one TurnFailure(1,         *)
(* no_tool_call) and one TurnEnded(1).                                     *)
(***************************************************************************)
EventsOfType(type) == SelectSeq(events, LAMBDA e : e.type = type)

\* the three triggers were sent before the actor handled anything, all are
\* processed, and no LLM request failed or produced a tool call
C6_Scenario ==
    /\ rpc.idle_sends = 3
    /\ rpc.inflight = {}
    /\ mailbox = <<>>
    /\ pc = "recv"
    /\ AcceptedCount = 3
    /\ \A i \in EventIdx : IsAccepted(i) => events[i].trigger.kind = "user_message"
    /\ task_seq = 0
    /\ llm_failures = 0
    /\ ~init_error
    /\ api_key
    /\ \A i \in EventIdx :
          events[i].type = "TurnFailure" => events[i].reason_code = "no_tool_call"

C6_CoalescedSingleTurn ==
    C6_Scenario =>
        /\ Len(TurnStartedEvents) = 1
        /\ TurnStartedEvents[1].turn_id = 1
        /\ TurnStartedEvents[1].trigger_count = 3
        /\ EventsOfType("TurnFailure") = <<TurnFailureEvent(1, "no_tool_call")>>
        /\ Len(EventsOfType("TurnEnded")) = 1
        /\ EventsOfType("TurnEnded")[1].turn_id = 1

(***************************************************************************)
(* C7: triggers are assigned to turns in acceptance order: when a is       *)
(* accepted before b, any turn that drains b comes with or after a turn    *)
(* that drained a, and that turn's id is not larger.                       *)
(***************************************************************************)
C7_AcceptanceOrder ==
    \A i, j \in EventIdx :
        (i < j /\ IsAccepted(i) /\ IsAccepted(j)) =>
            \A sb \in StartsOf(events[j].trigger.trigger_id) :
                \E sa \in StartsOf(events[i].trigger.trigger_id) :
                    /\ sa <= sb
                    /\ events[sa].turn_id <= events[sb].turn_id

\* a user trigger, then a task_done trigger, then another RPC trigger were
\* accepted, and each has been drained by a turn
C7_Witness ==
    \E i, j, k \in EventIdx :
        /\ i < j /\ j < k
        /\ IsAccepted(i) /\ events[i].trigger.kind = "user_message"
        /\ IsAccepted(j) /\ events[j].trigger.kind = "task_done"
        /\ IsAccepted(k) /\ events[k].trigger.kind \in ClientKinds
        /\ \A n \in {i, j, k} : StartsOf(events[n].trigger.trigger_id) # {}

(***************************************************************************)
(* C8: for every trigger, its TriggerAccepted event is emitted strictly    *)
(* before the TurnStarted event of the turn that processes it.             *)
(***************************************************************************)
C8_AcceptedBeforeStarted ==
    \A s \in EventIdx :
        IsTurnStarted(s) =>
            \A x \in SeqToSet(events[s].trigger_ids) :
                \E i \in AcceptsOf(x) : i < s

\* a turn has drained a task_done trigger synthesized by handle_finished_task
C8_Witness ==
    \E s \in EventIdx :
        /\ IsTurnStarted(s)
        /\ \E i \in EventIdx :
              /\ IsAccepted(i)
              /\ events[i].trigger.kind = "task_done"
              /\ events[i].trigger.trigger_id \in SeqToSet(events[s].trigger_ids)

(***************************************************************************)
(* C9: pending tasks are promoted in FIFO order: in every step, a task     *)
(* that goes from pending to running leaves no earlier-queued task         *)
(* pending, and the tasks that stay in pending_task_ids keep their         *)
(* relative order (also when a pending task is canceled).                  *)
(***************************************************************************)
Before(q, a, b) == \E i, j \in 1..Len(q) : i < j /\ q[i] = a /\ q[j] = b

C9_Step ==
    /\ \A t \in DOMAIN state.tasks :
          (state.tasks[t].status = "pending" /\ state'.tasks[t].status = "running")
          => \A u \in DOMAIN state.tasks :
                Before(state.pending_task_ids, u, t)
                => state'.tasks[u].status # "pending"
    /\ \A a, b \in SeqToSet(state.pending_task_ids) \cap SeqToSet(state'.pending_task_ids) :
          Before(state.pending_task_ids, a, b) <=> Before(state'.pending_task_ids, a, b)

C9_FifoPromotion == [][C9_Step]_vars

\* a pending task was promoted while a later-queued task was still pending
C9_Witness ==
    \E t, u \in TaskIds : \E i, j \in EventIdx :
        /\ t < u
        /\ i < j
        /\ IsTaskStatus(i, u, {"pending"})
        /\ IsTaskStatus(j, t, {"running"})
        /\ WasPromoted(t)
        /\ \A k \in EventIdx : (i < k /\ k <= j) => ~IsTaskEvent(k, u)

(***************************************************************************)
(* C10: task status and queue membership agree: an id is in               *)
(* pending_task_ids, exactly once, iff its status is pending; it is in     *)
(* running_task_ids iff its status is running; no id is in both; and the   *)
(* summary's counts, computed from the statuses, are the two sizes.        *)
(***************************************************************************)
C10_StatusMatchesQueues ==
    /\ SeqToSet(state.pending_task_ids) \cup state.running_task_ids
          \subseteq DOMAIN state.tasks
    /\ \A id \in DOMAIN state.tasks :
          /\ Count(state.pending_task_ids, id) =
                (IF state.tasks[id].status = "pending" THEN 1 ELSE 0)
          /\ (id \in state.running_task_ids) <=> (state.tasks[id].status = "running")
    /\ SeqToSet(state.pending_task_ids) \cap state.running_task_ids = {}
    /\ to_summary(state).pending_task_count = Len(state.pending_task_ids)
    /\ to_summary(state).running_task_count = Cardinality(state.running_task_ids)

\* a pending task was canceled while one task runs and another still waits
C10_Witness ==
    /\ state.pending_task_ids # <<>>
    /\ state.running_task_ids # {}
    /\ \E t \in TaskIds :
          /\ state.tasks[t].status = "canceled"
          /\ \A i \in EventIdx : ~IsTaskStatus(i, t, {"running"})

(***************************************************************************)
(* Reading the event log turn by turn.  Turns do not overlap, so the       *)
(* events of turn k are those from its TurnStarted to its TurnEnded (or to *)
(* the end of the log while the turn runs).                                *)
(***************************************************************************)
TurnIds == 1..state.turn_seq
StartIdx(k) == CHOOSE i \in EventIdx : IsTurnStarted(i) /\ events[i].turn_id = k
EndIdxs(k) == {i \in EventIdx : events[i].type = "TurnEnded" /\ events[i].turn_id = k}
TurnEndedOf(k) == EndIdxs(k) # {}
TurnSlice(k) ==
    SubSeq(events, StartIdx(k),
           IF TurnEndedOf(k) THEN CHOOSE i \in EndIdxs(k) : TRUE ELSE Len(events))
IsPhase(e, phase) == e.type = "AgentStream" /\ e.phase = phase
Has(s, x) == x \in SeqToSet(s)
\* the semantic attempts announced in turn k
AttemptsOf(k) ==
    LET notes == SelectSeq(TurnSlice(k), LAMBDA e : IsPhase(e, "agent.turn.attempt"))
    IN [i \in 1..Len(notes) |-> notes[i].semantic_attempt]
OutputsOf(k) ==
    LET outs == SelectSeq(TurnSlice(k), LAMBDA e : e.type = "AssistantOutput")
    IN [i \in 1..Len(outs) |-> outs[i].content]
FailureCodesOf(k) ==
    LET fails == SelectSeq(TurnSlice(k), LAMBDA e : e.type = "TurnFailure")
    IN [i \in 1..Len(fails) |-> fails[i].reason_code]

(***************************************************************************)
(* C13: run_turn makes at most two semantic attempts, numbered 1 and 2.    *)
(* The prompt carries the retry feedback exactly on the second.  A turn    *)
(* ends in success on the attempt that dispatched a tool, in no_tool_call  *)
(* only after both attempts produced none, and in openai_error on the      *)
(* attempt whose request failed, with no semantic attempt after it; a      *)
(* second attempt is made only after the first produced no tool call.      *)
(***************************************************************************)
C13_SemanticAttempts ==
    /\ pc = "agent" =>
          /\ turn.semantic_attempt \in {0, 1}
          /\ turn.prompt.retry_feedback_block <=> (turn.semantic_attempt = 1)
    /\ \A k \in TurnIds :
          LET att == AttemptsOf(k)
              outs == OutputsOf(k)
              codes == FailureCodesOf(k)
              last == Len(att) - 1
          IN /\ att \in {<<>>, <<1>>, <<1, 2>>}
             /\ Len(codes) <= 1
             /\ (TurnEndedOf(k) /\ att # <<>>) =>
                   \/ /\ codes = <<>>
                      /\ Has(outs, DispatchedDiagnostic(last))
                      /\ ~Has(outs, NoToolCallDiagnostic(last))
                      /\ ~Has(outs, "openai request failed")
                   \/ /\ codes = <<"no_tool_call">>
                      /\ att = <<1, 2>>
                      /\ Has(outs, NoToolCallDiagnostic(1))
                      /\ ~Has(outs, DispatchedDiagnostic(1))
                      /\ ~Has(outs, "openai request failed")
                   \/ /\ codes = <<"openai_error">>
                      /\ Has(outs, "openai request failed")
                      /\ ~Has(outs, NoToolCallDiagnostic(last))
                      /\ ~Has(outs, DispatchedDiagnostic(last))
             /\ (TurnEndedOf(k) /\ att = <<1, 2>>) =>
                   /\ Has(outs, NoToolCallDiagnostic(0))
                   /\ ~Has(outs, DispatchedDiagnostic(0))

\* one turn succeeded on its second attempt, one failed with no_tool_call and
\* one failed with openai_error on its first attempt
C13_Witness ==
    \E k1, k2, k3 \in TurnIds :
        /\ TurnEndedOf(k1) /\ AttemptsOf(k1) = <<1, 2>> /\ FailureCodesOf(k1) = <<>>
        /\ TurnEndedOf(k2) /\ FailureCodesOf(k2) = <<"no_tool_call">>
        /\ TurnEndedOf(k3) /\ AttemptsOf(k3) = <<1>>
                           /\ FailureCodesOf(k3) = <<"openai_error">>

(***************************************************************************)
(* C14: without an API credential every agent turn fails with reason code  *)
(* agent_init_error and no HTTP request is started.                        *)
(***************************************************************************)
C14_MissingKeyIsInitError ==
    ~api_key =>
        /\ \A i \in EventIdx : ~IsPhase(events[i], "openai.request.start")
        /\ \A k \in TurnIds :
              (TurnEndedOf(k) /\ \E i \in DOMAIN TurnSlice(k) :
                                    TurnSlice(k)[i].type = "TurnFailure")
              => FailureCodesOf(k) = <<"agent_init_error">>

(***************************************************************************)
(* C15: the reasoning-effort fallback happens at most once per call of     *)
(* stream_tool_calls and does not consume a retry: the fallback note is    *)
(* followed at once by a request with effort high, and that request has    *)
(* the attempt number of the request that was refused.                     *)
(***************************************************************************)
RequestStartsBefore(i) ==
    {j \in 1..(i - 1) : IsPhase(events[j], "openai.request.start")}
LastRequestStartBefore(i) ==
    CHOOSE j \in RequestStartsBefore(i) : \A n \in RequestStartsBefore(i) : n <= j

C15_FallbackKeepsBudget ==
    \A i \in EventIdx :
        IsPhase(events[i], "openai.request.fallback") =>
            /\ i < Len(events)
            /\ IsPhase(events[i + 1], "openai.request.start")
            /\ events[i + 1].effort = FALLBACK_REASONING_EFFORT
            /\ events[i + 1].attempt = events[LastRequestStartBefore(i)].attempt
            /\ \A j \in (LastRequestStartBefore(i) + 1)..(i - 1) :
                  ~IsPhase(events[j], "openai.request.fallback")

(***************************************************************************)
(* C16: a failed agent turn does not abort the session: its TurnFailure is *)
(* followed by the TurnEnded of the same turn before any other turn        *)
(* starts, turn_in_progress is false whenever the actor is back at recv,   *)
(* the actor is at recv or inside a turn and has an arm for the next       *)
(* command of its mailbox, and a trigger accepted after a failure is       *)
(* processed by a later turn.                                              *)
(***************************************************************************)
\* the commands run_session_actor has an arm for (ListTasks is not sent here)
HandledCommands == {"EnqueueTrigger", "GetSummary", "CancelTask", "TaskFinished"}

C16_FailureDoesNotAbort ==
    /\ \A i \in EventIdx :
          events[i].type = "TurnFailure" =>
              /\ \E j \in EventIdx :
                    /\ j > i
                    /\ events[j].type = "TurnEnded"
                    /\ events[j].turn_id = events[i].turn_id
                    /\ \A n \in i..j : ~IsTurnStarted(n)
              /\ \A j \in EventIdx :
                    (j > i /\ IsAccepted(j)) =>
                        \E st \in StartsOf(events[j].trigger.trigger_id) :
                            /\ st > j
                            /\ events[st].turn_id > events[i].turn_id
    /\ pc = "recv" => ~state.turn_in_progress
    /\ pc \in {"recv", "agent"}
    /\ (pc = "recv" /\ mailbox # <<>>) => Head(mailbox).type \in HandledCommands

\* after a failed turn a later trigger was accepted and its turn has ended
C16_Witness ==
    \E i, j \in EventIdx :
        /\ i < j
        /\ events[i].type = "TurnFailure"
        /\ IsAccepted(j)
        /\ \E k \in TurnIds :
              /\ k > events[i].turn_id
              /\ TurnEndedOf(k)
              /\ events[j].trigger.trigger_id \in SeqToSet(events[StartIdx(k)].trigger_ids)

(***************************************************************************)
(* C11: with task_capacity >= 1 and fair scheduling every queued task is   *)
(* eventually succeeded unless it is canceled, and a completion shows in   *)
(* the log as TaskStateChanged(succeeded), then at once TriggerAccepted of *)
(* a task_done trigger naming the task, then the TurnStarted of a turn     *)
(* that drains that trigger.                                               *)
(***************************************************************************)
TaskSettled(t) ==
    /\ t \in DOMAIN state.tasks
    /\ state.tasks[t].status \in {"succeeded", "canceled"}

CompletionAnnounced ==
    \A t \in TaskIds : \A i \in EventIdx :
        IsTaskStatus(i, t, {"succeeded"}) =>
            /\ i < Len(events)
            /\ IsAccepted(i + 1)
            /\ events[i + 1].trigger.kind = "task_done"
            /\ events[i + 1].trigger.task_id = t
            /\ \E st \in StartsOf(events[i + 1].trigger.trigger_id) : st > i + 1

C11_TasksComplete ==
    /\ \A t \in 1..MaxTasks :
          (t \in DOMAIN state.tasks /\ task_capacity >= 1) ~> TaskSettled(t)
    /\ []CompletionAnnounced

\* a task that had to wait for a slot has succeeded and its task_done turn ran
C11_Witness ==
    \E t \in TaskIds :
        /\ WasPromoted(t)
        /\ state.tasks[t].status = "succeeded"
        /\ \E i \in EventIdx :
              /\ IsAccepted(i)
              /\ events[i].trigger.kind = "task_done"
              /\ events[i].trigger.task_id = t
              /\ StartsOf(events[i].trigger.trigger_id) # {}

(***************************************************************************)
(* C12: within one parse of a response stream the tool callback fires at   *)
(* most once per stream call_id: no two invocations are caused by payloads *)
(* that carry the same call_id, whatever other ids the payloads carry and  *)
(* in whatever order they arrive.                                          *)
(***************************************************************************)
InvocationsFor(call_id) ==
    {i \in DOMAIN parse.invocations : parse.invocations[i].event.call_id = call_id}

C12_AtMostOncePerCallId ==
    \A call \in 1..MaxCalls : Cardinality(InvocationsFor(CallId(call))) <= 1

(***************************************************************************)
(* Reading an fs:// call.                                                  *)
(***************************************************************************)
\* the workspace-relative path the parser produced (the call got past parse_path)
Parsed(call) == call.target # <<>>

RelPath(call) == SubSeq(call.target, Len(WorkspaceRoot) + 1, Len(call.target))

CountPieces(raw, i, pieces) == Cardinality({j \in 1..i : raw[j] \in pieces})

\* some ".." of the raw path finds nothing before it left to pop
Underflows(raw) ==
    \E i \in 1..Len(raw) :
        /\ raw[i] = ".."
        /\ CountPieces(raw, i, {".."}) > CountPieces(raw, i, SegmentNames)

\* C17: P5, path containment: every file or directory the executor read or
\* wrote for an fs:// call has its canonical path under the canonical
\* workspace root, whatever links the workspace holds and whatever happens
\* to the workspace between the containment check and the I/O.
C17_PathContainment ==
    \A a \in fs_call.accessed : starts_with(a.path, WorkspaceRoot)

\* a ".." with nothing to pop is refused with permission_denied before the
\* filesystem is touched, and ".." otherwise cancels one segment
EscapeRefused ==
    /\ fs_call.stage # "idle" /\ ~starts_with_slash(fs_call.raw) /\ Underflows(fs_call.raw)
        => /\ fs_call.stage = "done"
           /\ ~fs_call.ok
           /\ fs_call.error_code = "permission_denied"
           /\ ~Parsed(fs_call)
           /\ fs_call.accessed = {}
           /\ disk \in InitialDisks
    /\ Parsed(fs_call)
        => CountPieces(fs_call.raw, Len(fs_call.raw), SegmentNames)
             - CountPieces(fs_call.raw, Len(fs_call.raw), {".."})
           = IF RelPath(fs_call) = <<".">> THEN 0 ELSE Len(RelPath(fs_call))

\* C18, as stated: parsing an fs:// path applies ".." by popping the segment
\* stack; a ".." applied to an empty stack is rejected with permission_denied
\* before any filesystem access, so that nothing is read or created; and a
\* path that parsed holds no "." and no ".." segment.
C18_ParseRejectsEscape ==
    /\ EscapeRefused
    /\ Parsed(fs_call)
        => \A i \in 1..Len(RelPath(fs_call)) : RelPath(fs_call)[i] \in SegmentNames

\* C18, amended: as above, except that a path with nothing left after
\* normalization (fs://, fs://., fs://d/..) parses to the single segment ".",
\* which names the workspace root; every other parsed path holds no "." and
\* no ".." segment.
C18_ParseRejectsEscapeOrRoot ==
    /\ EscapeRefused
    /\ Parsed(fs_call)
        => \/ RelPath(fs_call) = <<".">>
           \/ /\ RelPath(fs_call) # <<>>
              /\ \A i \in 1..Len(RelPath(fs_call)) : RelPath(fs_call)[i] \in SegmentNames

C18_Witness ==
    /\ fs_call.op = "write"
    /\ fs_call.raw = <<"..", "..", "f">>
    /\ fs_call.stage = "done"
    /\ fs_call.error_code = "permission_denied"

(***************************************************************************)
(* Reading a managed:// call.                                              *)
(***************************************************************************)
Callers == 1..MaxCallers

NamesOtherField(m) == m.field # NoName /\ m.field \notin allowed_fields(m.entity)

\* a call that succeeded, or is about to upsert, names an allowed field of
\* its entity; only list goes without a field, and then lists the allowed set
FieldClosure ==
    /\ Cardinality(AGENT_FIELDS) = 6
    /\ Cardinality(USER_FIELDS) = 5
    /\ \A caller \in Callers :
          LET m == managed[caller]
          IN /\ m.stage = "upsert" => m.field \in allowed_fields(m.entity)
             /\ m.stage = "done" /\ m.ok
                  => \/ m.field \in allowed_fields(m.entity)
                     \/ /\ m.field = NoName
                        /\ m.op = "list"
                        /\ m.entries = allowed_fields(m.entity)
             /\ m.stage = "done" /\ NamesOtherField(m) => ~m.ok

\* a step of a call that names another field leaves every profile of the
\* store as it was (a profile that did not exist can only appear as the default)
OtherFieldKeepsProfiles ==
    \A caller \in Callers :
        managed'[caller] # managed[caller] /\ NamesOtherField(managed'[caller])
            => /\ \A k \in DOMAIN profiles : k \in DOMAIN profiles' /\ profiles'[k] = profiles[k]
               /\ \A k \in DOMAIN profiles' \ DOMAIN profiles :
                     profiles'[k] = default_profile(k[1], k[2])

\* C19: P6, managed field closure: every successful managed list, read, write
\* or replace addresses a field of the allowed set of its entity (six agent
\* fields, five user fields); a call naming any other field fails, and no
\* step of it changes a profile.
C19_ManagedFieldClosure == []FieldClosure /\ [][OtherFieldKeepsProfiles]_vars

\* a write naming a field no entity has was refused after an earlier write
\* of the same caller had changed the profile
C19_Witness ==
    \E caller \in Callers :
        /\ managed[caller].stage = "done"
        /\ managed[caller].op = "write"
        /\ managed[caller].field = "bogus"
        /\ managed[caller].error_code = "invalid_path"
        /\ managed[caller].prev.op = "write"
        /\ managed[caller].prev.ok
        /\ <<managed[caller].entity, "a">> \in DOMAIN profiles
        /\ profiles[<<managed[caller].entity, "a">>] # default_profile(managed[caller].entity, "a")

SamePath(a, b) == a.entity = b.entity /\ a.id = b.id /\ a.field = b.field

IsWriteTo(a, path) == a.op \in {"write", "replace"} /\ SamePath(a, path)

\* C20: managed write/read round trip: a read that follows a successful
\* write with allow_override = true of the same caller to the same path,
\* with no write or replace of anyone else to that field, returns the
\* written content and its length in UTF-8 bytes.
C20_WriteReadRoundTrip ==
    \A caller \in Callers :
        LET m == managed[caller]
        IN /\ m.stage = "done" /\ m.op = "read" /\ m.ok
           /\ m.prev.op = "write" /\ m.prev.ok /\ m.prev.allow_override
           /\ SamePath(m.prev, m)
           /\ \A other \in Callers \ {caller} :
                 ~IsWriteTo(managed[other], m) /\ ~IsWriteTo(managed[other].prev, m)
           => /\ m.data_content = m.prev.content
              /\ m.data_bytes = len(m.prev.content)

(***************************************************************************)
(* C29: a task's status only moves along pending -> running ->             *)
(* {succeeded, failed}, pending -> canceled and running -> canceled: no     *)
(* step takes a pending task to succeeded or failed, a running task back   *)
(* to pending, or a task out of a terminal status; a new task starts       *)
(* pending or running, and no task is ever removed.                        *)
(***************************************************************************)
TaskEdges ==
    {<<"pending", "running">>, <<"running", "succeeded">>, <<"running", "failed">>,
     <<"pending", "canceled">>, <<"running", "canceled">>}

C29_Step ==
    /\ \A t \in DOMAIN state.tasks :
          /\ t \in DOMAIN state'.tasks
          /\ \/ state'.tasks[t].status = state.tasks[t].status
             \/ <<state.tasks[t].status, state'.tasks[t].status>> \in TaskEdges
    /\ \A t \in DOMAIN state'.tasks \ DOMAIN state.tasks :
          state'.tasks[t].status \in {"pending", "running"}

C29_TaskDag == [][C29_Step]_vars

\* one task was promoted and succeeded, another was canceled, and the
\* completer of the canceled one has delivered its TaskFinished
C29_Witness ==
    \E t, u \in TaskIds :
        /\ t # u
        /\ WasPromoted(t)
        /\ state.tasks[t].status = "succeeded"
        /\ state.tasks[u].status = "canceled"
        /\ FinishedDelivered(u)

(***************************************************************************)
(* C26: when the actor handles CancelTask(t): for an unknown t the reply   *)
(* is not_found, and for a task in a terminal status it is canceled =      *)
(* false with the task as it was; in both no event is emitted and the      *)
(* session state is unchanged.  For a pending or running task the reply is *)
(* canceled = true with the task in status canceled and result_message     *)
(* "canceled by request", which is also what the session stores.           *)
(***************************************************************************)
CancelHandled ==
    /\ pc = "recv"
    /\ mailbox # <<>>
    /\ Head(mailbox).type = "CancelTask"
    /\ mailbox' = Tail(mailbox)

C26_Step ==
    CancelHandled =>
        LET t == Head(mailbox).task_id IN
        /\ reply'.to = "CancelTask"
        /\ IF t \notin DOMAIN state.tasks
           THEN /\ reply'.error = "not_found"
                /\ events' = events
                /\ state' = state
           ELSE IF state.tasks[t].status \in Terminal
           THEN /\ reply'.error = ""
                /\ ~reply'.canceled
                /\ reply'.task = state.tasks[t]
                /\ events' = events
                /\ state' = state
           ELSE /\ reply'.error = ""
                /\ reply'.canceled
                /\ reply'.task.status = "canceled"
                /\ reply'.task.result_message = "canceled by request"
                /\ state'.tasks[t] = reply'.task

C26_CancelReplies == [][C26_Step]_vars

\* a task was canceled while it was still pending
C26_Witness ==
    /\ reply.to = "CancelTask"
    /\ reply.canceled
    /\ reply.task.status = "canceled"
    /\ \E i \in EventIdx : IsTaskStatus(i, reply.task_id, {"pending"})
    /\ ~\E i \in EventIdx : IsTaskStatus(i, reply.task_id, {"running"})

(***************************************************************************)
(* C25: the first turn of a session with a free task slot, processing one  *)
(* user_message trigger, in which the orchestrator dispatches exactly one  *)
(* tool call and succeeds.                                                 *)
(***************************************************************************)
TypesOf(k) == [i \in 1..Len(TurnSlice(k)) |-> TurnSlice(k)[i].type]
FirstOf(s, x) == CHOOSE i \in 1..Len(s) : s[i] = x /\ \A j \in 1..(i - 1) : s[j] # x
OneToolTurn ==
    /\ task_capacity >= 1
    /\ 1 \in TurnIds
    /\ TurnEndedOf(1)
    /\ FailureCodesOf(1) = <<>>
    /\ TurnSlice(1)[1].trigger_count = 1
    /\ \A x \in SeqToSet(TurnSlice(1)[1].trigger_ids) :
          \A i \in AcceptsOf(x) : events[i].trigger.kind = "user_message"
    /\ Count(TypesOf(1), "TaskStateChanged") = 1

\* the order of the events: TurnStarted, one or more AgentStream, the
\* TaskStateChanged of the task in status running (stream notes of later
\* payloads may follow it), the AssistantOutputs, TurnEnded with
\* "processed 1 trigger(s)"
OneToolTurnOrder(outputs) ==
    LET s == TurnSlice(1)
        ty == TypesOf(1)
        n == Len(s)
        task == FirstOf(ty, "TaskStateChanged")
    IN /\ n >= task + outputs + 1
       /\ task >= 3
       /\ ty[1] = "TurnStarted"
       /\ s[1].turn_id = 1
       /\ \A i \in 2..(task - 1) : ty[i] = "AgentStream"
       /\ s[task].status = "running"
       /\ \A i \in (task + 1)..(n - 1 - outputs) : ty[i] = "AgentStream"
       /\ \A i \in (n - outputs)..(n - 1) : ty[i] = "AssistantOutput"
       /\ ty[n] = "TurnEnded"
       /\ s[n].turn_id = 1
       /\ s[n].processed = 1

\* C25 as stated: one AssistantOutput, and TurnEnded reports history_size 2.
C25_OneToolTurnHistoryTwo ==
    OneToolTurn =>
        /\ OneToolTurnOrder(1)
        /\ TurnSlice(1)[Len(TurnSlice(1))].history_size = 2

\* C25 amended: the AssistantOutputs are the line of the queued tool, then
\* the orchestrator's diagnostics, then the summary line, so there are at
\* least two of them, and TurnEnded reports history_size = 1 + their number.
C25_OneToolTurn ==
    OneToolTurn =>
        LET outs == OutputsOf(1) IN
        /\ OneToolTurnOrder(Len(outs))
        /\ Len(outs) >= 2
        /\ outs[1] = "queued tool"
        /\ outs[Len(outs)] = "agent dispatched"
        /\ TurnSlice(1)[Len(TurnSlice(1))].history_size = 1 + Len(outs)
        /\ TurnSlice(1)[Len(TurnSlice(1))].history_size = Len(state.history)
              \/ state.turn_seq > 1

C25_Witness ==
    /\ OneToolTurn
    /\ state.turn_seq = 1
    /\ Len(OutputsOf(1)) = 4
    /\ Len(state.history) = 5

(***************************************************************************)
(* OpenAiClient::stream_tool_calls (agent/openai.rs), the request loop on  *)
(* its own: one action per iteration of `while attempts <= max_retries`,   *)
(* with the response of the HTTP request as input.  The sleeps before a    *)
(* retry are not modelled.                                                 *)
(***************************************************************************)
MaxRequests == 5

Statuses == {400, 401, 429, 500, 503}
\* Ok(response) with a success status (parse_stream then succeeds or fails),
\* Ok(response) with another status and a body, or Err(reqwest::Error)
Responses ==
    [kind : {"success"}, parse_ok : BOOLEAN]
    \cup [kind : {"status"}, status : Statuses, names_reasoning_effort : BOOLEAN]
    \cup [kind : {"transport"}, is_timeout : BOOLEAN]

NoError == [kind |-> "none"]
MissingApiKey == [kind |-> "OPENAI_API_KEY is required but not configured"]

should_retry_status(status) == status = 429 \/ status \in 500..599
\* is_timeout stands for is_timeout() || is_connect() || is_request()
should_retry_transport(error) == error.is_timeout

attempts_left_always(attempts) == TRUE
attempts_left(attempts) == attempts <= max_retries

Err(h, error) == [h EXCEPT !.pc = "done", !.result = "Err", !.error = error]

\* one iteration of the loop: the request is sent and `response` comes back
iterate(h, response) ==
    LET h1 == [h EXCEPT !.requests = Append(@,
                   [response |-> response, attempt |-> h.attempts + 1,
                    effort |-> h.reasoning_effort])]
        retry == [h1 EXCEPT !.attempts = @ + 1]
    IN
    IF response.kind = "success"
    THEN IF response.parse_ok
         THEN [h1 EXCEPT !.pc = "done", !.result = "Ok"]
         ELSE IF h1.attempts >= max_retries
              THEN Err(h1, response)
              ELSE [retry EXCEPT !.last_error = response]
    ELSE IF response.kind = "status"
    THEN LET invalid_reasoning ==
                 /\ response.status = 400
                 /\ h1.reasoning_effort = DEFAULT_REASONING_EFFORT
                 /\ response.names_reasoning_effort
         IN IF invalid_reasoning
            THEN [retry EXCEPT !.last_error = response,
                               !.reasoning_effort = FALLBACK_REASONING_EFFORT]
            ELSE IF should_retry_status(response.status) /\ h1.attempts < max_retries
            THEN [retry EXCEPT !.last_error = response]
            ELSE Err(h1, response)
    ELSE IF should_retry_transport(response) /\ h1.attempts < max_retries
         THEN [retry EXCEPT !.last_error = response]
         ELSE Err(h1, response)

\* the call: without an API key it returns before the loop
HttpCall ==
    /\ http.pc = "idle"
    /\ http' = IF http.api_key
               THEN [pc |-> "loop", attempts |-> 0,
                     reasoning_effort |-> DEFAULT_REASONING_EFFORT,
                     last_error |-> NoError, requests |-> <<>>,
                     result |-> "none", error |-> NoError]
               ELSE [pc |-> "done", attempts |-> 0,
                     reasoning_effort |-> DEFAULT_REASONING_EFFORT,
                     last_error |-> NoError, requests |-> <<>>,
                     result |-> "Err", error |-> MissingApiKey]
    /\ UNCHANGED <<session, stream, files, store, copies, channel, validation>>

HttpRequest(response) ==
    /\ http.pc = "loop"
    /\ attempts_left(http.attempts)
    /\ Len(http.requests) < MaxRequests
    /\ http' = iterate(http, response)
    /\ UNCHANGED <<session, stream, files, store, copies, channel, validation>>

\* the loop condition is false: Err(last_error)
HttpReturn ==
    /\ http.pc = "loop"
    /\ ~attempts_left(http.attempts)
    /\ http' = Err(http, http.last_error)
    /\ UNCHANGED <<session, stream, files, store, copies, channel, validation>>

HttpNext ==
    \/ HttpCall
    \/ \E response \in Responses : HttpRequest(response)
    \/ HttpReturn

HttpInit ==
    /\ SessionParked
    /\ StreamIdle
    /\ FilesIdle
    /\ StoreIdle
    /\ http \in [pc : {"idle"}, api_key : BOOLEAN]
    /\ copies = NoCopies
    /\ channel = NoChannel
    /\ validation = NoValidation

HttpSpec == HttpInit /\ [][HttpNext]_vars

(***************************************************************************)
(* C30: one call of stream_tool_calls issues at most max_retries + 1 (= 3) *)
(* requests; when every response was a retryable failure (429, 5xx, a      *)
(* retryable transport error, a stream parse error) and the retries are    *)
(* used up, it returns the last error; a response with a non-retryable     *)
(* HTTP status ends the call with that error, no request follows it.       *)
(***************************************************************************)
RetryableFailure(response) ==
    \/ response.kind = "success" /\ ~response.parse_ok
    \/ response.kind = "status" /\ should_retry_status(response.status)
    \/ response.kind = "transport" /\ should_retry_transport(response)
NonRetryableStatus(response) ==
    response.kind = "status" /\ ~should_retry_status(response.status)
\* the 400 that rejects the default reasoning effort
EffortRejected(request) ==
    /\ request.response.kind = "status"
    /\ request.response.status = 400
    /\ request.response.names_reasoning_effort
    /\ request.effort = DEFAULT_REASONING_EFFORT
Returned(error) == http.pc = "done" /\ http.result = "Err" /\ http.error = error

RequestsBounded ==
    http.pc # "idle" =>
        /\ Len(http.requests) <= max_retries + 1
        /\ Len(http.requests) <= 3
        /\ \A i \in 1..Len(http.requests) : http.requests[i].attempt = i
RetriesExhausted ==
    (/\ http.pc # "idle"
     /\ Len(http.requests) = max_retries + 1
     /\ \A i \in 1..Len(http.requests) : RetryableFailure(http.requests[i].response))
    => Returned(http.requests[Len(http.requests)].response)
\* the requests after which the call has ended with the request's error
EndsCall(i) ==
    /\ i = Len(http.requests)
    /\ Returned(http.requests[i].response)

\* C30 as stated: every non-retryable status ends the call.
C30_RequestsBoundedStatusEnds ==
    /\ RequestsBounded
    /\ RetriesExhausted
    /\ http.pc # "idle" =>
          \A i \in 1..Len(http.requests) :
              NonRetryableStatus(http.requests[i].response) => EndsCall(i)

\* C30 amended: a non-retryable status ends the call unless it is the 400
\* that rejects the default reasoning effort, which the fallback handles.
C30_RequestsBounded ==
    /\ RequestsBounded
    /\ RetriesExhausted
    /\ http.pc # "idle" =>
          \A i \in 1..Len(http.requests) :
              (NonRetryableStatus(http.requests[i].response)
               /\ ~EffortRejected(http.requests[i])) => EndsCall(i)

\* a retry after a 429, then the fallback after the rejected effort, then a
\* 401 that ends the call on the third request
C30_Witness ==
    /\ http.pc = "done"
    /\ Len(http.requests) = 3
    /\ RetryableFailure(http.requests[1].response)
    /\ EffortRejected(http.requests[2])
    /\ NonRetryableStatus(http.requests[3].response)
    /\ Returned(http.requests[3].response)

(***************************************************************************)
(* The profile store and one session's profile copies: create_session      *)
(* (runtime.rs), the upsert RPCs, managed writes, and the triggers of a     *)
(* turn as far as they touch the copies (process_turns and                  *)
(* apply_profile_refresh, session/engine.rs).  The store reads of one       *)
(* refresh are taken at one instant.                                        *)
(***************************************************************************)
MaxParticipants == 4
MaxSpecVersion == 3

\* ids as callers may send them: with a leading blank, blank, or empty
AgentIdInputs == {"a", " "}
UserIdInputs == {"a", " a", "u", ""}
\* str::trim
trim(id) == CASE id = " a" -> "a" [] id = " " -> "" [] OTHER -> id

ParticipantInputs ==
    UNION {[1..n -> UserIdInputs] : n \in 0..MaxParticipants}

\* util.rs dedup_ids: trim, skip the empty, keep the first of each
RECURSIVE dedup_from(_, _, _)
dedup_from(ids, seen, deduped) ==
    IF ids = <<>> THEN deduped
    ELSE LET id == trim(Head(ids)) IN
         IF id = "" THEN dedup_from(Tail(ids), seen, deduped)
         ELSE IF id \in seen THEN dedup_from(Tail(ids), seen, deduped)
         ELSE dedup_from(Tail(ids), seen \cup {id}, Append(deduped, id))
dedup_ids_keep_all(ids) == ids
dedup_ids(ids) == dedup_from(ids, {}, <<>>)

\* HashMap::insert on the user copies
insert_alone(map, key, value) == [k \in {key} |-> value]
insert(map, key, value) ==
    [k \in DOMAIN map \cup {key} |-> IF k = key THEN value ELSE map[k]]

\* SessionState::to_summary, the profile part
summary_of(s) ==
    [agent_id |-> s.agent_id,
     participant_user_ids |-> s.participant_user_ids,
     agent_profile_copy |-> s.agent_profile_copy,
     participant_user_profiles_copy |->
        LET present == SelectSeq(s.participant_user_ids,
                           LAMBDA id : id \in DOMAIN s.participant_user_profiles_copy)
        IN [i \in 1..Len(present) |-> s.participant_user_profiles_copy[present[i]]]]

\* the store after get_or_create_user_profile of every participant, in order
RECURSIVE create_users(_, _)
create_users(profs, ids) ==
    IF ids = <<>> THEN profs
    ELSE create_users(get_or_create_profile(profs, "user", Head(ids)), Tail(ids))

\* Runtime::create_session: [store, session]
create_session(profs, agent_id, participant_user_ids) ==
    IF trim(agent_id) = ""
    THEN [profiles |-> profs,
          session |-> [pc |-> "rejected", error |-> "invalid_argument"]]
    ELSE
      LET ids == dedup_ids(participant_user_ids)
          p1 == create_users(get_or_create_profile(profs, "agent", agent_id), ids)
          s == [pc |-> "created", error |-> "", agent_id |-> agent_id,
                participant_user_ids |-> ids,
                agent_profile_copy |-> p1[<<"agent", agent_id>>],
                participant_user_profiles_copy |->
                    [id \in SeqToSet(ids) |-> p1[<<"user", id>>]],
                all_refreshes |-> 0]
      IN [profiles |-> p1, session |-> [s EXCEPT !.pc = "created"] @@
                                        [summary |-> summary_of(s)]]

\* fetch_agent_profile / fetch_user_profile is Some
fetched(profs, entity, id) == <<entity, id>> \in DOMAIN profs

\* `state.agent_profile_copy = profile`, `.insert(user_id, profile)`
assign_bumped(previous, profile) ==
    [profile EXCEPT !.spec_version = previous.spec_version + 1]
assign(previous, profile) == profile

RECURSIVE refresh_users(_, _, _)
refresh_users(s, profs, ids) ==
    IF ids = <<>> THEN s
    ELSE LET user_id == Head(ids)
             previous == IF user_id \in DOMAIN s.participant_user_profiles_copy
                         THEN s.participant_user_profiles_copy[user_id]
                         ELSE NoProfile
             s1 == IF fetched(profs, "user", user_id)
                   THEN [s EXCEPT !.participant_user_profiles_copy =
                                     insert(@, user_id,
                                            assign(previous, profs[<<"user", user_id>>]))]
                   ELSE s
         IN refresh_users(s1, profs, Tail(ids))

\* apply_profile_refresh (the ids it returns go into the ProfileRefreshed
\* event and are not kept)
apply_profile_refresh(s, profs, refresh) ==
    LET s0 == s
        s1 == IF refresh.scope \in {"agent", "all"}
                 /\ fetched(profs, "agent", s.agent_id)
              THEN [s0 EXCEPT !.agent_profile_copy =
                                 assign(@, profs[<<"agent", s.agent_id>>])]
              ELSE s0
    IN IF refresh.scope \in {"user", "all"}
       THEN IF refresh.scope = "user" /\ trim(refresh.user_id) # ""
            THEN refresh_users(s1, profs, <<refresh.user_id>>)
            ELSE refresh_users(s1, profs, s1.participant_user_ids)
       ELSE s1

\* the triggers a turn may hold (process_turns matches on the kind)
Refreshes == [kind : {"refresh_profile"}, scope : {"agent", "user", "all"},
              user_id : {"", "a", "u"}]
OtherTriggers == [kind : {"user_message", "task_done", "heartbeat", "cron"}]
RefreshAll == [kind |-> "refresh_profile", scope |-> "all", user_id |-> ""]

\* process_turns, the `match trigger.kind` of one trigger; all_refreshes
\* counts the refresh(all) triggers processed in a row, up to two
process_trigger(s, profs, trigger) ==
    LET s1 == IF trigger.kind = "refresh_profile"
              THEN apply_profile_refresh(s, profs, trigger)
              ELSE s
    IN [s1 EXCEPT !.all_refreshes = IF trigger # RefreshAll THEN 0
                                    ELSE IF @ < 2 THEN @ + 1 ELSE @]

\* the CreateSession RPC; the request is kept next to the session
CreateSession(agent_id, participant_user_ids) ==
    /\ copies.pc = "idle"
    /\ LET r == create_session(profiles, agent_id, participant_user_ids)
       IN /\ profiles' = r.profiles
          /\ copies' = r.session @@
                [request |-> [agent_id |-> agent_id,
                              participant_user_ids |-> participant_user_ids]]
    /\ UNCHANGED <<session, stream, files, managed, http, channel, validation>>

\* the actor drains a trigger into a turn
ProcessTrigger(trigger) ==
    /\ copies.pc = "created"
    /\ copies' = process_trigger(copies, profiles, trigger)
    /\ UNCHANGED <<session, stream, files, store, http, channel, validation>>

\* the other commands of the actor: CancelTask, TaskFinished, GetSummary
OtherCommand ==
    /\ copies.pc = "created"
    /\ copies.all_refreshes # 0
    /\ copies' = [copies EXCEPT !.all_refreshes = 0]
    /\ UNCHANGED <<session, stream, files, store, http, channel, validation>>

\* Runtime::upsert_agent_profile by RPC, with spec_version 0 or supplied
UpsertAgentProfile(spec_version, content) ==
    /\ IF <<"agent", "a">> \in DOMAIN profiles
       THEN profiles[<<"agent", "a">>].spec_version < MaxSpecVersion
       ELSE TRUE
    /\ profiles' = upsert_profile(profiles, "agent", "a",
                      [fields |-> [f \in AGENT_FIELDS |-> content],
                       spec_version |-> spec_version])
    /\ UNCHANGED <<session, stream, files, managed, service>>

\* Runtime::upsert_user_profile by RPC
UpsertUserProfile(user_id, content) ==
    /\ profiles' = upsert_profile(profiles, "user", user_id,
                      [fields |-> [f \in USER_FIELDS |-> content],
                       spec_version |-> 0])
    /\ profiles' # profiles
    /\ UNCHANGED <<session, stream, files, managed, service>>

ProfileNext ==
    \/ \E ids \in {<<>>, <<"u", " a">>, <<"a", "", "a">>} : CreateSession("a", ids)
    \/ \E trigger \in Refreshes \cup OtherTriggers : ProcessTrigger(trigger)
    \/ OtherCommand
    \/ \E spec_version \in 0..2 : UpsertAgentProfile(spec_version, <<"h">>)
    \/ \E user_id \in {"a", "u"} : UpsertUserProfile(user_id, <<"h">>)
    \/ \E entity \in ManagedEntities :
          ManagedExecute(MaxCallers, "write", entity, "long_term_memory_md", <<"h">>, TRUE)
    \/ ManagedUpsert(MaxCallers)

\* create_session alone, for every request, on a store that RPC upserts
\* have filled or not
CreateNext ==
    \/ \E agent_id \in AgentIdInputs, ids \in ParticipantInputs :
          CreateSession(agent_id, ids)
    \/ \E spec_version \in 0..2 : UpsertAgentProfile(spec_version, <<"h">>)
    \/ \E user_id \in {"a", "u"} : UpsertUserProfile(user_id, <<"h">>)

ProfileInit ==
    /\ SessionParked
    /\ ToolsIdle

ProfileSpec == ProfileInit /\ [][ProfileNext]_vars

CreateSpec == ProfileInit /\ [][CreateNext]_vars

(***************************************************************************)
(* C23: the spec_version stored for an agent id never decreases, whatever  *)
(* upsert_agent_profile calls (spec_version 0 or supplied) and managed     *)
(* writes happen, and an upsert that supplies spec_version 0 stores a      *)
(* version strictly greater than the one stored before.                    *)
(***************************************************************************)
AgentKeys(profs) == {k \in DOMAIN profs : k[1] = "agent"}
VersionOf(profs, k) == IF k \in DOMAIN profs THEN profs[k].spec_version ELSE 0
VersionsKept ==
    \A k \in AgentKeys(profiles) :
        /\ k \in AgentKeys(profiles')
        /\ profiles'[k].spec_version >= profiles[k].spec_version
\* the step is an upsert of agent "a" that supplies spec_version 0
UpsertsWithZero ==
    \E content \in {<<"h">>} :
        profiles' = upsert_profile(profiles, "agent", "a",
                        [fields |-> [f \in AGENT_FIELDS |-> content], spec_version |-> 0])
ZeroBumps ==
    UpsertsWithZero =>
        VersionOf(profiles', <<"agent", "a">>) > VersionOf(profiles, <<"agent", "a">>)

C23_SpecVersionMonotonic == [][VersionsKept /\ ZeroBumps]_vars

(***************************************************************************)
(* C21: refresh idempotence.  Whatever the session's copies and the store  *)
(* are, processing refresh_profile(scope = all) twice in a row, with no    *)
(* store change in between, leaves agent_profile_copy and                  *)
(* participant_user_profiles_copy after the second refresh equal to their  *)
(* values after the first.                                                 *)
(***************************************************************************)
ProfileCopies(s) == <<s.agent_profile_copy, s.participant_user_profiles_copy>>

SnapshotAtCreation ==
    (copies.pc = "idle" /\ copies'.pc = "created") =>
        /\ copies'.agent_profile_copy = profiles'[<<"agent", copies'.agent_id>>]
        /\ DOMAIN copies'.participant_user_profiles_copy
              = SeqToSet(copies'.participant_user_ids)
        /\ \A id \in SeqToSet(copies'.participant_user_ids) :
              copies'.participant_user_profiles_copy[id] = profiles'[<<"user", id>>]
ProfileOrNone(profs, k) == IF k \in DOMAIN profs THEN profs[k] ELSE NoProfile
\* what differs in the copies was copied from the store
Recopied ==
    /\ \/ copies'.agent_profile_copy = copies.agent_profile_copy
       \/ copies'.agent_profile_copy = ProfileOrNone(profiles, <<"agent", copies.agent_id>>)
    /\ \A id \in DOMAIN copies.participant_user_profiles_copy :
          /\ id \in DOMAIN copies'.participant_user_profiles_copy
          /\ \/ copies'.participant_user_profiles_copy[id]
                   = copies.participant_user_profiles_copy[id]
             \/ copies'.participant_user_profiles_copy[id]
                   = ProfileOrNone(profiles, <<"user", id>>)
OnlyRefreshChanges ==
    copies.pc = "created" =>
        /\ copies'.pc = "created"
        /\ ProfileCopies(copies') # ProfileCopies(copies) =>
              /\ profiles' = profiles
              /\ \E refresh \in Refreshes :
                    copies' = process_trigger(copies, profiles, refresh)
              /\ Recopied

C22_CopiesFrame == [][SnapshotAtCreation /\ OnlyRefreshChanges]_vars

\* after the creation the store was changed by RPC upserts and by a
\* managed write, and the copies are still those of the creation
C22_Witness ==
    /\ copies.pc = "created"
    /\ managed[MaxCallers].stage = "done"
    /\ managed[MaxCallers].ok
    /\ copies.participant_user_ids = <<"u", "a">>
    /\ summary_of(copies) = copies.summary
    /\ profiles[<<"agent", "a">>].spec_version > copies.agent_profile_copy.spec_version + 1
    /\ profiles[<<"user", "u">>] # copies.participant_user_profiles_copy["u"]
    /\ profiles[<<"user", "a">>] # copies.participant_user_profiles_copy["a"]

(***************************************************************************)
(* C27: create_session rejects a blank agent id with invalid_argument and  *)
(* creates nothing (no session, no profile in the store); otherwise the    *)
(* session's participant_user_ids are the ids of the request without the   *)
(* blank ones and without duplicates, in first-seen order, and the summary *)
(* carries the agent profile copy and exactly one user profile copy per    *)
(* participant id.                                                         *)
(***************************************************************************)
untrimmed(id) == id
FirstSeen(norm(_), input, x) ==
    CHOOSE j \in 1..Len(input) :
        /\ norm(input[j]) = x
        /\ \A k \in 1..(j - 1) : norm(input[k]) # x
\* ids is input without blanks and duplicates, ids being compared as norm
\* gives them
Deduplicated(norm(_), input, ids) ==
    /\ \A i \in 1..Len(ids) : \E j \in 1..Len(input) : norm(input[j]) = ids[i]
    /\ \A i \in 1..Len(ids) : trim(ids[i]) # ""
    /\ \A i, j \in 1..Len(ids) : ids[i] = ids[j] => i = j
    /\ \A j \in 1..Len(input) :
          trim(input[j]) # "" => \E i \in 1..Len(ids) : ids[i] = norm(input[j])
    /\ \A i, j \in 1..Len(ids) :
          i < j => FirstSeen(norm, input, ids[i]) < FirstSeen(norm, input, ids[j])
Rejected ==
    /\ copies.pc = "rejected" <=>
          (copies.pc # "idle" /\ trim(copies.request.agent_id) = "")
    /\ copies.pc = "rejected" => copies.error = "invalid_argument"
SummaryCarriesCopies ==
    copies.pc = "created" =>
        LET ids == copies.participant_user_ids
            users == copies.summary.participant_user_profiles_copy
        IN /\ copies.summary.participant_user_ids = ids
           /\ copies.summary.agent_profile_copy # NoProfile
           /\ Len(users) = Len(ids)
           /\ \A i \in 1..Len(ids) : users[i] # NoProfile
RejectionCreatesNothing ==
    (copies.pc = "idle" /\ copies'.pc = "rejected") => profiles' = profiles
CreatedWith(norm(_)) ==
    /\ Rejected
    /\ SummaryCarriesCopies
    /\ copies.pc = "created" =>
          Deduplicated(norm, copies.request.participant_user_ids,
                       copies.participant_user_ids)

\* C27 as stated: the participants are ids of the request as they were sent.
C27_CreateSessionVerbatim == [][RejectionCreatesNothing]_vars /\ []CreatedWith(untrimmed)

\* C27 amended: the ids are trimmed first, and compared after the trimming.
C27_CreateSession == [][RejectionCreatesNothing]_vars /\ []CreatedWith(trim)

\* a request with a duplicate that differs by a blank only, an empty id, and
\* a second id
C27_Witness ==
    /\ copies.pc = "created"
    /\ copies.request.participant_user_ids = <<" a", "", "a", "u">>
    /\ copies.participant_user_ids = <<"a", "u">>
    /\ Len(copies.summary.participant_user_profiles_copy) = 2

(***************************************************************************)
(* The event stream of a session: emit_event (session/engine.rs) sends on  *)
(* the broadcast channel created by create_session, attach_session_events  *)
(* (service.rs) subscribes and maps a lag to resource_exhausted.  The      *)
(* channel is tokio's broadcast ring: a send with no receiver fails, a     *)
(* send overwrites the oldest slot, a receiver that finds its slot         *)
(* overwritten gets Lagged(skipped) and continues at the oldest slot kept. *)
(* The ring has RingSlots slots in place of EVENT_BUFFER_SIZE = 256.       *)
(***************************************************************************)
RingSlots == 2
MaxEmits == 5
MaxSubscribers == 2

\* attached_at: how many events had been emitted when the subscriber attached
NoSubscriber ==
    [attached |-> FALSE, detached |-> FALSE, attached_at |-> 0, next |-> 0,
     received |-> <<>>]

\* broadcast::channel(EVENT_BUFFER_SIZE): an empty ring, no receiver
NewChannel ==
    [pc |-> "open", emitted |-> 0, tail |-> 0, dropped |-> {},
     ring |-> [slot \in 0..(RingSlots - 1) |-> [pos |-> 0, value |-> 0]],
     subs |-> [s \in 1..MaxSubscribers |-> NoSubscriber]]

receiver_count(ch) == Cardinality({s \in DOMAIN ch.subs : ch.subs[s].attached})

\* Sender::send: Err when there is no receiver, else the value takes the
\* slot of position tail + 1
send(ch, value) ==
    IF receiver_count(ch) = 0
    THEN [ok |-> FALSE, ch |-> ch]
    ELSE LET pos == ch.tail + 1 IN
         [ok |-> TRUE,
          ch |-> [ch EXCEPT !.tail = pos,
                            !.ring[pos % RingSlots] = [pos |-> pos, value |-> value]]]

\* emit_event: the event carries its emission number; a failed send is only
\* logged
emit(ch) ==
    LET n == ch.emitted + 1
        sent == send(ch, n)
    IN IF sent.ok
       THEN [sent.ch EXCEPT !.emitted = n]
       ELSE [ch EXCEPT !.emitted = n, !.dropped = @ \cup {n}]

\* Receiver::recv finds the slot of its position overwritten
lagged_never(slot_pos, next) == FALSE
lagged(slot_pos, next) == slot_pos # next

\* one item of the BroadcastStream of subscriber s, mapped as in
\* attach_session_events
next_item(ch, s) ==
    LET sub == ch.subs[s]
        slot == ch.ring[sub.next % RingSlots]
        oldest == ch.tail - RingSlots + 1
    IN IF lagged(slot.pos, sub.next)
       THEN [ch EXCEPT !.subs[s].next = oldest,
                       !.subs[s].received = Append(@,
                           [kind |-> "resource_exhausted", skipped |-> oldest - sub.next,
                            n |-> 0])]
       ELSE [ch EXCEPT !.subs[s].next = @ + 1,
                       !.subs[s].received = Append(@,
                           [kind |-> "event", skipped |-> 0, n |-> slot.value])]

\* attach_session_events: events_tx.subscribe() starts at the tail
Attach(s) ==
    /\ channel.pc = "open"
    /\ ~channel.subs[s].attached
    /\ ~channel.subs[s].detached
    /\ channel' = [channel EXCEPT !.subs[s].attached = TRUE,
                                  !.subs[s].attached_at = channel.emitted,
                                  !.subs[s].next = channel.tail + 1]
    /\ UNCHANGED <<session, stream, files, store, http, copies, validation>>

\* the client goes away and the stream with its receiver is dropped
Detach(s) ==
    /\ channel.pc = "open"
    /\ channel.subs[s].attached
    /\ channel' = [channel EXCEPT !.subs[s].attached = FALSE,
                                  !.subs[s].detached = TRUE]
    /\ UNCHANGED <<session, stream, files, store, http, copies, validation>>

Emit ==
    /\ channel.pc = "open"
    /\ channel.emitted < MaxEmits
    /\ channel' = emit(channel)
    /\ UNCHANGED <<session, stream, files, store, http, copies, validation>>

\* the stream of subscriber s is polled while something is waiting for it
Receive(s) ==
    /\ channel.pc = "open"
    /\ channel.subs[s].attached
    /\ channel.subs[s].next <= channel.tail
    /\ channel' = next_item(channel, s)
    /\ UNCHANGED <<session, stream, files, store, http, copies, validation>>

BroadcastNext ==
    \/ \E s \in 1..MaxSubscribers : Attach(s)
    \/ \E s \in 1..MaxSubscribers : Detach(s)
    \/ Emit
    \/ \E s \in 1..MaxSubscribers : Receive(s)

BroadcastInit ==
    /\ SessionParked
    /\ StreamIdle
    /\ FilesIdle
    /\ StoreIdle
    /\ http = NoHttp
    /\ copies = NoCopies
    /\ validation = NoValidation
    /\ channel = NewChannel

BroadcastSpec == BroadcastInit /\ [][BroadcastNext]_vars

(***************************************************************************)
(* C24: every subscriber receives the events emitted after it attached in  *)
(* emission order, without gaps except where it lagged; where it fell      *)
(* behind the ring it receives resource_exhausted with the number of       *)
(* events it skipped and then the later events, in order; an event emitted *)
(* while no subscriber is attached is dropped: nobody receives it, and     *)
(* nothing but the count of emitted events changes.                        *)
(***************************************************************************)
\* the emission number the subscriber expects after the first k items
RECURSIVE ExpectedAfter(_, _)
ExpectedAfter(sub, k) ==
    IF k = 0 THEN sub.attached_at + 1
    ELSE LET item == sub.received[k] IN
         IF item.kind = "event" THEN ExpectedAfter(sub, k - 1) + 1
         ELSE ExpectedAfter(sub, k - 1) + item.skipped
InOrder(sub) ==
    \A k \in 1..Len(sub.received) :
        LET item == sub.received[k] IN
        /\ item.kind \in {"event", "resource_exhausted"}
        /\ item.kind = "event" => item.n = ExpectedAfter(sub, k - 1)
        /\ item.kind = "resource_exhausted" => item.skipped >= 1
        /\ ExpectedAfter(sub, k) <= channel.emitted + 1
Received(sub) == {sub.received[k].n : k \in {i \in 1..Len(sub.received) :
                                                 sub.received[i].kind = "event"}}
StreamsInOrder ==
    channel.pc = "open" =>
        \A s \in 1..MaxSubscribers :
            /\ InOrder(channel.subs[s])
            /\ Received(channel.subs[s]) \cap channel.dropped = {}
DropChangesNothing ==
    (/\ channel.pc = "open"
     /\ receiver_count(channel) = 0
     /\ channel'.emitted # channel.emitted)
    => /\ channel' = [channel EXCEPT !.emitted = @ + 1, !.dropped = @ \cup {channel.emitted + 1}]
       /\ UNCHANGED session

C24_EventStream == []StreamsInOrder /\ [][DropChangesNothing]_vars

\* an event was dropped; subscriber 1 received an event, lagged, got the
\* error and then a later event; subscriber 2 attached later and received
\* an event too
C24_Witness ==
    /\ channel.pc = "open"
    /\ channel.dropped # {}
    /\ \E k \in 2..(Len(channel.subs[1].received) - 1) :
          /\ channel.subs[1].received[k - 1].kind = "event"
          /\ channel.subs[1].received[k].kind = "resource_exhausted"
          /\ channel.subs[1].received[k].skipped >= 1
          /\ channel.subs[1].received[k + 1].kind = "event"
    /\ channel.subs[2].attached_at > channel.subs[1].attached_at
    /\ Received(channel.subs[2]) # {}

(***************************************************************************)
(* ToolRegistry (agent/tool_registry.rs): the declared parameter schemas   *)
(* of ToolRegistry::new and the hand-written checks of                      *)
(* ToolRegistry::validate, applied to one tool name and one JSON value.     *)
(***************************************************************************)
MaxEdits == 2

\* serde_json::Value: the variant t and its payload (s, n, b or o)
NoMembers == [key \in {} |-> 0]
JsonString(v) == [t |-> "string", s |-> v, n |-> 0, b |-> FALSE, o |-> NoMembers]
JsonInteger(v) == [t |-> "integer", s |-> "", n |-> v, b |-> FALSE, o |-> NoMembers]
JsonBool(v) == [t |-> "boolean", s |-> "", n |-> 0, b |-> v, o |-> NoMembers]
JsonNull == [t |-> "null", s |-> "", n |-> 0, b |-> FALSE, o |-> NoMembers]
JsonObject(map) == [t |-> "object", s |-> "", n |-> 0, b |-> FALSE, o |-> map]

JsonScalars ==
    {JsonString(s) : s \in {"", "agent", "user", "x", "fs://f",
                            "managed://agent/a/soul_md"}}
    \cup {JsonInteger(-1), JsonInteger(0), JsonBool(TRUE), JsonNull}

\* str::starts_with on the strings of JsonScalars
str_starts_with(s, prefix) ==
    \/ prefix = "managed://" /\ s \in {"managed://agent/a/soul_md"}
    \/ prefix = "fs://" /\ s \in {"fs://f"}

\* ToolRegistry::new: the parameters of each tool
StringProperty == [type |-> "string", enum |-> {}, minimum |-> -1]
EnumProperty(values) == [type |-> "string", enum |-> values, minimum |-> -1]
ToolSchemas ==
    [memory_append |->
        [properties |-> [target |-> EnumProperty({"agent", "user"}),
                         target_id |-> StringProperty, note |-> StringProperty],
         required |-> {"target", "target_id", "note"}],
     refresh_profile |->
        [properties |-> [scope |-> EnumProperty({"agent", "user", "all"}),
                         user_id |-> StringProperty],
         required |-> {"scope"}],
     schedule_heartbeat |->
        [properties |-> [delay_ms |-> [type |-> "integer", enum |-> {}, minimum |-> 0]],
         required |-> {"delay_ms"}],
     fs_list |->
        [properties |-> [path |-> StringProperty], required |-> {"path"}],
     fs_read |->
        [properties |-> [path |-> StringProperty], required |-> {"path"}],
     fs_write |->
        [properties |-> [path |-> StringProperty, content |-> StringProperty,
                         allow_override |-> [type |-> "boolean", enum |-> {},
                                             minimum |-> -1]],
         required |-> {"path", "content", "allow_override"}],
     fs_replace |->
        [properties |-> [path |-> StringProperty, old |-> StringProperty,
                         new |-> StringProperty,
                         mode |-> EnumProperty({"first", "all"})],
         required |-> {"path", "old", "new", "mode"}]]
RegisteredTools == DOMAIN ToolSchemas

\* the value satisfies the property's type, enum and minimum
satisfies_property(property, value) ==
    /\ value.t = property.type
    /\ property.enum # {} => value.s \in property.enum
    /\ property.type = "integer" => value.n >= property.minimum
\* "type": "object", "required", "additionalProperties": false
satisfies_schema(schema, args) ==
    /\ args.t = "object"
    /\ schema.required \subseteq DOMAIN args.o
    /\ DOMAIN args.o \subseteq DOMAIN schema.properties
    /\ \A key \in DOMAIN args.o \cap DOMAIN schema.properties :
          satisfies_property(schema.properties[key], args.o[key])

\* read_required_string is Ok
read_required_string(args, key) ==
    /\ key \in DOMAIN args
    /\ args[key].t = "string"
    /\ trim(args[key].s) # ""
\* args.get(key).and_then(Value::as_str / as_bool / as_i64) is Some
get_as(args, key, type) == key \in DOMAIN args /\ args[key].t = type

path_prefix(args) ==
    \/ str_starts_with(args["path"].s, "managed://")
    \/ str_starts_with(args["path"].s, "fs://")

\* ToolRegistry::validate: "Ok", or the error
ToolRegistry_validate(tool_name, value) ==
    IF value.t # "object" THEN "tool arguments must be a JSON object"
    ELSE LET args == value.o IN
    CASE tool_name = "memory_append" ->
           IF ~read_required_string(args, "target")
           THEN "missing or invalid string field"
           ELSE IF args["target"].s \notin {"agent", "user"}
           THEN "memory_append.target must be 'agent' or 'user'"
           ELSE IF ~read_required_string(args, "target_id")
                   \/ ~read_required_string(args, "note")
           THEN "missing or invalid string field"
           ELSE "Ok"
      [] tool_name = "refresh_profile" ->
           IF ~read_required_string(args, "scope")
           THEN "missing or invalid string field"
           ELSE IF args["scope"].s \notin {"agent", "user", "all"}
           THEN "refresh_profile.scope must be 'agent', 'user', or 'all'"
           ELSE IF args["scope"].s = "user" /\ ~read_required_string(args, "user_id")
           THEN "missing or invalid string field"
           ELSE "Ok"
      [] tool_name = "schedule_heartbeat" ->
           IF ~get_as(args, "delay_ms", "integer")
           THEN "schedule_heartbeat.delay_ms must be an integer"
           ELSE IF args["delay_ms"].n < 0
           THEN "schedule_heartbeat.delay_ms must be >= 0"
           ELSE "Ok"
      [] tool_name \in {"fs_list", "fs_read"} ->
           IF ~read_required_string(args, "path")
           THEN "missing or invalid string field"
           ELSE IF ~path_prefix(args)
           THEN "path must start with managed:// or fs://"
           ELSE "Ok"
      [] tool_name = "fs_write" ->
           IF ~read_required_string(args, "path")
           THEN "missing or invalid string field"
           ELSE IF ~path_prefix(args)
           THEN "path must start with managed:// or fs://"
           ELSE IF ~get_as(args, "content", "string")
           THEN "fs_write.content must be a string"
           ELSE IF ~get_as(args, "allow_override", "boolean")
           THEN "fs_write.allow_override must be a boolean"
           ELSE "Ok"
      [] tool_name = "fs_replace" ->
           IF ~read_required_string(args, "path")
           THEN "missing or invalid string field"
           ELSE IF ~path_prefix(args)
           THEN "path must start with managed:// or fs://"
           ELSE IF ~read_required_string(args, "old")
           THEN "missing or invalid string field"
           ELSE IF ~get_as(args, "new", "string")
           THEN "fs_replace.new must be a string"
           ELSE IF ~read_required_string(args, "mode")
           THEN "missing or invalid string field"
           ELSE IF args["mode"].s \notin {"first", "all"}
           THEN "fs_replace.mode must be first or all"
           ELSE "Ok"
      [] OTHER -> "unknown tool"

\* the argument objects tried: one that every check accepts, changed in up to
\* MaxEdits places (a key set to another value or added, or a key removed)
BaseArgs ==
    [memory_append |-> [target |-> JsonString("agent"), target_id |-> JsonString("x"),
                        note |-> JsonString("x")],
     refresh_profile |-> [scope |-> JsonString("all")],
     schedule_heartbeat |-> [delay_ms |-> JsonInteger(0)],
     fs_list |-> [path |-> JsonString("fs://f")],
     fs_read |-> [path |-> JsonString("managed://agent/a/soul_md")],
     fs_write |-> [path |-> JsonString("fs://f"), content |-> JsonString("x"),
                   allow_override |-> JsonBool(TRUE)],
     fs_replace |-> [path |-> JsonString("fs://f"), old |-> JsonString("x"),
                     new |-> JsonString("x"), mode |-> JsonString("first")],
     no_such_tool |-> [path |-> JsonString("fs://f")]]
EditKeys(tool_name) ==
    (IF tool_name \in RegisteredTools THEN DOMAIN ToolSchemas[tool_name].properties
     ELSE {"path"}) \cup {"extra"}
with_key(map, key, value) ==
    [k \in DOMAIN map \cup {key} |-> IF k = key THEN value ELSE map[k]]
without_key(map, key) == [k \in DOMAIN map \ {key} |-> map[k]]
EditsOf(tool_name, maps) ==
    maps \cup {with_key(m, key, value) :
                  m \in maps, key \in EditKeys(tool_name), value \in JsonScalars}
         \cup {without_key(m, key) : m \in maps, key \in EditKeys(tool_name)}
RECURSIVE Edited(_, _)
Edited(tool_name, n) ==
    IF n = 0 THEN {BaseArgs[tool_name]}
    ELSE EditsOf(tool_name, Edited(tool_name, n - 1))
ValidateInputs ==
    UNION {{[tool_name |-> tool_name, args |-> JsonObject(m)] :
               m \in Edited(tool_name, MaxEdits)}
           \cup {[tool_name |-> tool_name, args |-> JsonString("x")]} :
           tool_name \in DOMAIN BaseArgs}

\* the stream parser calls validate on the arguments of a tool call
Validate ==
    /\ validation.pc = "call"
    /\ validation' = [validation EXCEPT
                         !.pc = "done",
                         !.result = ToolRegistry_validate(validation.tool_name,
                                                          validation.args)]
    /\ UNCHANGED <<session, stream, files, store, http, copies, channel>>

ValidateNext == Validate

ValidateInit ==
    /\ SessionParked
    /\ StreamIdle
    /\ FilesIdle
    /\ StoreIdle
    /\ http = NoHttp
    /\ copies = NoCopies
    /\ channel = NoChannel
    /\ validation \in {[pc |-> "call", result |-> "none", tool_name |-> i.tool_name,
                        args |-> i.args] : i \in ValidateInputs}

ValidateSpec == ValidateInit /\ [][ValidateNext]_vars

\* the arguments carry a path with one of the two prefixes, for the tools whose
\* schema declares a path
PathPrefixed(tool_name, args) ==
    "path" \in DOMAIN ToolSchemas[tool_name].properties
        => /\ args.t = "object"
           /\ "path" \in DOMAIN args.o
           /\ args.o["path"].t = "string"
           /\ \/ str_starts_with(args.o["path"].s, "managed://")
              \/ str_starts_with(args.o["path"].s, "fs://")
Validated == validation.pc = "done"
Accepted == validation.result = "Ok"
\* C28: validate accepts the arguments of a registered tool exactly when they
\* satisfy the tool's declared schema (an object, the required fields, the
\* types, the enum values, delay_ms >= 0, no additional property) and the
\* managed:// or fs:// path prefix, and it returns an error for a tool name
\* that is not registered.
C28_ValidateMatchesSchemas ==
    Validated =>
        IF validation.tool_name \in RegisteredTools
        THEN Accepted <=>
                /\ satisfies_schema(ToolSchemas[validation.tool_name], validation.args)
                /\ PathPrefixed(validation.tool_name, validation.args)
        ELSE ~Accepted

(***************************************************************************)
(* C31: history is append-only and changes only at the end of a turn.      *)
(* Each turn appends one line per trigger of the turn, in the order in     *)
(* which the triggers were accepted into the queue, followed by one line   *)
(* per AssistantOutput emitted in that turn; lines already there are never *)
(* changed or removed; TurnEnded.history_size is the history length after  *)
(* the append of its turn.                                                 *)
(***************************************************************************)
\* the events read in order: the triggers accepted and not yet drained, the
\* triggers and outputs of the turn that is open, the lines of the turns that
\* ended, and whether every TurnEnded carried the length reached
HistoryRead ==
    [pending |-> <<>>, triggers |-> <<>>, outputs |-> <<>>, lines |-> <<>>,
     sizes |-> TRUE]
RECURSIVE ReadHistory(_, _)
ReadHistory(i, r) ==
    IF i > Len(events) THEN r
    ELSE LET e == events[i] IN
         ReadHistory(i + 1,
            CASE e.type = "TriggerAccepted" ->
                   [r EXCEPT !.pending = Append(@, <<"trigger", e.trigger.trigger_id>>)]
              [] e.type = "TurnStarted" ->
                   [r EXCEPT !.triggers = r.pending, !.pending = <<>>,
                             !.outputs = <<>>]
              [] e.type = "AssistantOutput" ->
                   [r EXCEPT !.outputs = Append(@, <<"assistant", e.content>>)]
              [] e.type = "TurnEnded" ->
                   LET lines == r.lines \o r.triggers \o r.outputs IN
                   [r EXCEPT !.lines = lines,
                             !.sizes = @ /\ e.history_size = Len(lines)]
              [] OTHER -> r)

HistoryIsTurnLines ==
    LET r == ReadHistory(1, HistoryRead)
    IN /\ state.history = r.lines
       /\ r.sizes

IsPrefix(s, t) == Len(s) <= Len(t) /\ SubSeq(t, 1, Len(s)) = s
HistoryAppendOnly ==
    /\ IsPrefix(state.history, state'.history)
    /\ state'.history # state.history =>
          /\ Len(events') > Len(events)
          /\ events'[Len(events')].type = "TurnEnded"

C31_HistoryAppendOnly == []HistoryIsTurnLines /\ [][HistoryAppendOnly]_vars

\* two turns have ended, the first queued a tool and a later one processed
\* the task_done trigger of that task, and the history holds the lines of both
C31_Witness ==
    /\ Len(EventsOfType("TurnEnded")) >= 2
    /\ \E i \in EventIdx :
          /\ IsAccepted(i)
          /\ events[i].trigger.kind = "task_done"
          /\ <<"trigger", events[i].trigger.trigger_id>> \in SeqToSet(state.history)
    /\ \E i \in 1..Len(state.history) : state.history[i] = <<"assistant", "queued tool">>
    /\ Len(state.history) >= 6
    /\ pc = "recv"

(***************************************************************************)
(* C32: a turn whose triggers are all refresh_profile triggers does not    *)
(* run the orchestrator.  Between its TurnStarted and its TurnEnded it     *)
(* emits one ProfileRefreshed per refresh trigger, no AgentStream, no      *)
(* TurnFailure and no TaskStateChanged (it queues no task), and it does    *)
(* emit both TurnStarted and TurnEnded.  Whenever the orchestrator runs,   *)
(* it was handed the non-refresh triggers of the turn and only those.      *)
(***************************************************************************)
\* the kinds of the triggers drained by turn k
KindsOfTurn(k) ==
    {events[i].trigger.kind :
        i \in {j \in EventIdx :
                 /\ IsAccepted(j)
                 /\ events[j].trigger.trigger_id \in
                        SeqToSet(events[StartIdx(k)].trigger_ids)}}
RefreshOnly(k) == KindsOfTurn(k) = {"refresh_profile"}
RefreshedIds(k) ==
    LET refreshed == SelectSeq(TurnSlice(k), LAMBDA e : e.type = "ProfileRefreshed")
    IN [i \in 1..Len(refreshed) |-> refreshed[i].trigger_id]

RefreshTurnsSkipAgent ==
    \A k \in 1..Len(TurnStartedEvents) :
        RefreshOnly(k) =>
            LET n == events[StartIdx(k)].trigger_count IN
            /\ TurnEndedOf(k)
            /\ TypesOf(k) = <<"TurnStarted">> \o Repeat("ProfileRefreshed", n)
                               \o Repeat("AssistantOutput", n) \o <<"TurnEnded">>
            /\ RefreshedIds(k) = events[StartIdx(k)].trigger_ids
AgentGetsOtherTriggers ==
    pc = "agent" =>
        /\ turn.agent_triggers # <<>>
        /\ turn.agent_triggers =
              SelectSeq(turn.turn_triggers, LAMBDA tr : tr.kind # "refresh_profile")

C32_RefreshOnlyTurn == RefreshTurnsSkipAgent /\ AgentGetsOtherTriggers

\* a refresh-only turn has ended after a turn that ran the orchestrator and
\* queued a task, in a session whose orchestrator works
C32_Witness ==
    /\ ~init_error
    /\ api_key
    /\ \E k \in 2..Len(TurnStartedEvents) : RefreshOnly(k) /\ TurnEndedOf(k)
    /\ task_seq >= 1
    /\ pc = "recv"

(***************************************************************************)
(* C33: work conservation.  Whenever the session actor has finished        *)
(* processing a command and waits for the next one, pending_task_ids is    *)
(* empty or the number of running task ids equals task_capacity: no task   *)
(* stays pending while a running slot is free, whatever the sequence of    *)
(* queue_task, CancelTask and TaskFinished was.                            *)
(***************************************************************************)
C33_WorkConserving ==
    pc = "recv" =>
        \/ state.pending_task_ids = <<>>
        \/ Cardinality(state.running_task_ids) = task_capacity

\* a running task was canceled, a waiting task took its slot, and another
\* task still waits behind the full pool
C33_Witness ==
    /\ pc = "recv"
    /\ task_capacity >= 1
    /\ state.pending_task_ids # <<>>
    /\ Cardinality(state.running_task_ids) = task_capacity
    /\ \E t, u \in TaskIds :
          /\ \E i, j \in EventIdx :
                i < j /\ IsTaskStatus(i, t, {"running"}) /\ IsTaskStatus(j, t, {"canceled"})
          /\ WasPromoted(u)
          /\ u \in state.running_task_ids

(***************************************************************************)
(* C34: whenever the session actor waits to receive the next command,      *)
(* trigger_queue is empty and turn_in_progress is false.  So process_turns *)
(* never returns early on turn_in_progress, and one invocation of it runs  *)
(* at most one turn: a turn starts only in the step that receives a        *)
(* command, and at most one starts there.                                  *)
(***************************************************************************)
IdleAtRecv ==
    pc = "recv" =>
        /\ state.trigger_queue = <<>>
        /\ ~state.turn_in_progress
TurnsStarted(es) == Len(SelectSeq(es, LAMBDA e : e.type = "TurnStarted"))
OneTurnPerInvocation ==
    /\ TurnsStarted(events') <= TurnsStarted(events) + 1
    /\ pc = "agent" => TurnsStarted(events') = TurnsStarted(events)

C34_IdleAtRecv == []IdleAtRecv /\ [][OneTurnPerInvocation]_vars

\* three invocations of process_turns have each run a turn, one of them for a
\* task_done trigger, and a trigger sent meanwhile waits in the mailbox
C34_Witness ==
    /\ pc = "recv"
    /\ Len(TurnStartedEvents) >= 3
    /\ Len(EventsOfType("TurnEnded")) = Len(TurnStartedEvents)
    /\ \E i \in EventIdx : IsAccepted(i) /\ events[i].trigger.kind = "task_done"
    /\ mailbox # <<>>
    /\ Head(mailbox).type = "EnqueueTrigger"

(***************************************************************************)
(* C35: for every task, at most one TaskFinished message is ever sent by a *)
(* completer, and at most one task_done trigger is ever accepted.  A       *)
(* task_done trigger for a task is accepted exactly when the task goes to  *)
(* succeeded or failed, and never for a canceled task.                     *)
(***************************************************************************)
\* the completers spawned for task_id: one per TaskStateChanged(running)
Spawned(task_id) ==
    Cardinality({i \in EventIdx : IsTaskStatus(i, task_id, {"running"})})
\* the TaskFinished messages of task_id that wait in the mailbox
FinishedWaiting(task_id) ==
    Cardinality({k \in 1..Len(mailbox) :
                    /\ mailbox[k].type = "TaskFinished"
                    /\ mailbox[k].task_id = task_id})
IsTaskDone(i, task_id) ==
    /\ IsAccepted(i)
    /\ events[i].trigger.kind = "task_done"
    /\ events[i].trigger.task_id = task_id
TaskDoneCount(task_id) == Cardinality({i \in EventIdx : IsTaskDone(i, task_id)})

\* one completer per task, which is asleep, or has its one message in the
\* mailbox, or has been heard
OneCompleter ==
    \A t \in 1..MaxTasks :
        /\ Spawned(t) <= 1
        /\ CopiesIn(t, completers) + FinishedWaiting(t) <= Spawned(t)
TaskDoneOnCompletion ==
    \A t \in 1..MaxTasks :
        /\ TaskDoneCount(t) <= 1
        /\ \A i \in EventIdx :
              IsTaskStatus(i, t, {"succeeded", "failed"}) <=>
                  (i < Len(events) /\ IsTaskDone(i + 1, t))
        /\ TaskDoneCount(t) >= 1 =>
              ~\E i \in EventIdx : IsTaskStatus(i, t, {"canceled"})
\* a TaskFinished enters the mailbox only by using up a sleeping completer
SendUsesCompleter ==
    \A t \in 1..MaxTasks :
        (Len(mailbox') > Len(mailbox)
            /\ mailbox'[Len(mailbox')].type = "TaskFinished"
            /\ mailbox'[Len(mailbox')].task_id = t)
        => /\ CopiesIn(t, completers) = 1
           /\ CopiesIn(t, completers') = 0
           /\ FinishedWaiting(t) = 0

TurnFailed(k) ==
    \E i \in 1..Len(TurnSlice(k)) : TurnSlice(k)[i].type = "TurnFailure"
\* the tasks queued in turn k: the actor handles no command during a turn, so
\* every TaskStateChanged between TurnStarted and TurnEnded is of queue_task
QueuedIn(k) ==
    {TurnSlice(k)[i].task_id :
        i \in {j \in 1..Len(TurnSlice(k)) : TurnSlice(k)[j].type = "TaskStateChanged"}}

C36_FailedTurnQueuesNothing ==
    \A k \in 1..Len(TurnStartedEvents) : TurnFailed(k) => QueuedIn(k) = {}

(***************************************************************************)
(* C37: liveness of the actor.  Under fair scheduling, and with every      *)
(* orchestrator call returning, every command sent to the mailbox is       *)
(* eventually taken by the actor, every EnqueueTrigger eventually gets its *)
(* reply, and every accepted trigger is eventually followed by the         *)
(* TurnStarted and the TurnEnded of a turn that includes it.  The actor    *)
(* never waits on its own completers: whenever a command waits or a        *)
(* completer sleeps, the actor or a completer can take a step.  (The       *)
(* mailbox is first in, first out, so it becomes empty only when every     *)
(* command that waited was taken; a reply is sent in the step that takes   *)
(* the command.)                                                           *)
(***************************************************************************)
\* the ids of the triggers of the fair workload
TriggerIdRange == 1..(LiveWorkload.triggers + LiveWorkload.tasks)
\* the mailbox holds the EnqueueTrigger of trigger x
TriggerWaiting(x) ==
    \E k \in 1..Len(mailbox) :
        mailbox[k].type = "EnqueueTrigger" /\ mailbox[k].trigger.trigger_id = x
\* a turn that drained x has started and ended
TurnRan(x) ==
    \E s \in StartsOf(x) : TurnEndedOf(events[s].turn_id)
\* the step in which the actor takes a command sends the command's reply
RepliesAtOnce ==
    (pc = "recv" /\ mailbox # <<>> /\ mailbox' = Tail(mailbox)) =>
        LET command == Head(mailbox) IN
        CASE command.type = "EnqueueTrigger" ->
               /\ reply'.to = "EnqueueTrigger"
               /\ reply'.trigger_id = command.trigger.trigger_id
          [] command.type = "CancelTask" ->
               /\ reply'.to = "CancelTask"
               /\ reply'.task_id = command.task_id
          [] command.type = "GetSummary" -> reply'.to = "GetSummary"
          [] OTHER -> reply' = reply
\* the actor is inside run_turn, or can receive, or a completer can send
CanStep ==
    \/ pc = "agent"
    \/ pc = "recv" /\ mailbox # <<>>
    \/ \E t \in 1..MaxTasks :
          BagIn(t, completers) /\ Len(mailbox) < SESSION_CMD_BUFFER_SIZE
NoSelfDeadlock ==
    (mailbox # <<>> \/ completers # EmptyBag) => CanStep

C38_CopiesOfParticipantsOnly ==
    copies.pc = "created" =>
        DOMAIN copies.participant_user_profiles_copy
            \subseteq SeqToSet(copies.participant_user_ids)

(***************************************************************************)
(* C39: managed write and replace are atomic with respect to each other on *)
(* the same profile.  When two callers have each written a different field *)
(* of the same agent or user profile, however their calls interleaved,     *)
(* both written values are in the profile store afterwards (no lost        *)
(* update), and each write of an agent profile bumps spec_version.         *)
(***************************************************************************)
\* the only call of caller so far was a write, and it has returned ok
WroteOnce(caller) ==
    /\ managed[caller].stage = "done"
    /\ managed[caller].ok
    /\ managed[caller].op = "write"
    /\ managed[caller].calls = 1
Kept(caller) ==
    LET m == managed[caller]
    IN profiles[<<m.entity, m.id>>].fields[m.field] = m.content
ConcurrentWritesKept ==
    \A c1, c2 \in 1..MaxCallers :
        (/\ c1 # c2
         /\ WroteOnce(c1)
         /\ WroteOnce(c2)
         /\ managed[c1].entity = managed[c2].entity
         /\ managed[c1].field # managed[c2].field)
        => Kept(c1) /\ Kept(c2)
\* the upsert of a managed write or replace of an agent profile stores a
\* larger spec_version
WriteBumps ==
    \A caller \in 1..MaxCallers :
        (/\ managed[caller].stage = "upsert"
         /\ managed'[caller].stage = "done"
         /\ managed[caller].entity = "agent")
        => LET key == <<"agent", managed[caller].id>>
           IN profiles'[key].spec_version > profiles[key].spec_version

C39_ManagedWritesAtomic == []ConcurrentWritesKept /\ [][WriteBumps]_vars

(***************************************************************************)
(* C40: a managed operation that returns an error (invalid_path, not_file, *)
(* already_exists, invalid_args for replace with empty old) leaves the     *)
(* profile store unchanged: the step in which a call returns an error      *)
(* creates no profile and changes no field and no spec_version.            *)
(***************************************************************************)
\* this step is the return of an error to caller
ReturnsError(caller) ==
    /\ managed'[caller] # managed[caller]
    /\ managed'[caller].stage = "done"
    /\ ~managed'[caller].ok
    /\ managed'[caller].error_code \in
          {"invalid_path", "not_file", "already_exists", "invalid_args"}
ErrorLeavesStore ==
    (\E caller \in 1..MaxCallers : ReturnsError(caller)) => profiles' = profiles

C40_ErrorLeavesStoreUnchanged == [][ErrorLeavesStore]_vars

====
